---- MODULE Spec2Model ----
(***************************************************************************)
(* A model of hispanie_event_card: the event merge-by-link utility         *)
(* (find_common_events.py), the word-wrap, the banner colour policy and    *)
(* the drawing cursor of the card composers (event_card_generator.py,      *)
(* motivation_card_generator.py), the composition of one card statement by *)
(* statement, and the run of main.py: the choice of the sections, the      *)
(* batch of event cards and the daily motivation cards.  Further parts:    *)
(* the merge on dict objects that may be shared, two runs of the merge on  *)
(* the same input, the gradient colours, split_text with what it draws,    *)
(* the configuration of one composer instance over its calls, the layout   *)
(* of the standard card, and the week of the daily cards.                  *)
(*                                                                         *)
(* Python strings are sequences of one-character strings, so that strip,   *)
(* split, upper and substring search are computed and not assumed.  A      *)
(* Python dict is a function whose DOMAIN is the set of its keys.          *)
(***************************************************************************)
EXTENDS Integers, Sequences, FiniteSets, TLC

VARIABLES
    nonDetailedFile,        \* events_<city>_non_detailed.json
    detailedFile,           \* events_<city>_detailed.json
    outputFile,             \* events_<city>.json
    runs,                   \* number of merge runs started so far
    events_non_detailed,    \* locals of the last find_and_merge_common_events
    events_detailed,
    non_detailed_link_map,
    detailed_link_map,
    common_links,
    common_events,
    non_common_events,
    residualWritten,        \* the non-detailed file holds the residual list of the last run
    inputWasResidual,       \* the last run read the file the run before it wrote
    pc,                     \* position in the call or in the run
    call,                   \* its arguments and the files it finds
    ret                     \* its return value and what it has done

mergerVars == <<nonDetailedFile, detailedFile, outputFile, runs,
                events_non_detailed, events_detailed, non_detailed_link_map,
                detailed_link_map, common_links, common_events, non_common_events,
                residualWritten, inputWasResidual>>

callVars == <<pc, call, ret>>

vars == <<mergerVars, callVars>>

----------------------------------------------------------------------------
(* Bounds *)

MaxNonDetailed == 2     \* records in the non-detailed input file
MaxDetailed == 1        \* records in the detailed input file
MaxRuns == 2            \* merge runs in one behaviour

----------------------------------------------------------------------------
(* Python str and dict primitives *)

Whitespace == {" ", "\n", "\t"}

RECURSIVE LStrip(_)
LStrip(s) ==
    IF s = <<>> THEN s
    ELSE IF Head(s) \in Whitespace THEN LStrip(Tail(s)) ELSE s

RECURSIVE RStrip(_)
RStrip(s) ==
    IF s = <<>> THEN s
    ELSE IF s[Len(s)] \in Whitespace THEN RStrip(SubSeq(s, 1, Len(s) - 1)) ELSE s

\* str.strip()
Strip(s) == RStrip(LStrip(s))

\* dict.get(key, default)
Get(d, key, default) == IF key \in DOMAIN d THEN d[key] ELSE default

EmptyDict == [k \in {} |-> k]

\* the sentinel "not found"
NotFound == <<"n", "o", "t", " ", "f", "o", "u", "n", "d">>

\* a time stamp is kept as its type and its rank in that type's order:
\* the empty string is the least string
EmptyStr == [t |-> "str", v |-> 0]

----------------------------------------------------------------------------
(* EventMerger *)

\* the link that keys an event: event.get("link", "").strip()
LinkKey(event) == Strip(Get(event, "link", <<>>))

ValidKey(link) == link # <<>> /\ link # NotFound

\* the first-write-wins variant of the comprehension (dict.setdefault)
RECURSIVE CreateLinkMap_FirstWins(_)
CreateLinkMap_FirstWins(events) ==
    IF events = <<>> THEN EmptyDict
    ELSE LET rest == CreateLinkMap_FirstWins(SubSeq(events, 1, Len(events) - 1))
             event == events[Len(events)]
             link == LinkKey(event)
         IN IF ValidKey(link) THEN rest @@ (link :> event) ELSE rest

\* { link: event for event in events if (link := ...) and link != "not found" }:
\* the events are visited in list order and a repeated key is assigned again
RECURSIVE CreateLinkMap(_)
CreateLinkMap(events) ==
    IF events = <<>> THEN EmptyDict
    ELSE LET rest == CreateLinkMap(SubSeq(events, 1, Len(events) - 1))
             event == events[Len(events)]
             link == LinkKey(event)
         IN IF ValidKey(link) THEN (link :> event) @@ rest ELSE rest

fields_to_overwrite ==
    <<"title", "location", "description_short", "description_long", "cost", "type">>

RECURSIVE OverwriteFields(_, _, _)
OverwriteFields(merged_event, detailed_event, i) ==
    IF i > Len(fields_to_overwrite) THEN merged_event
    ELSE LET field == fields_to_overwrite[i]
             source_value == Strip(Get(detailed_event, field, <<>>))
         IN IF source_value # <<>> /\ source_value # NotFound
            THEN OverwriteFields((field :> source_value) @@ merged_event, detailed_event, i + 1)
            ELSE OverwriteFields(merged_event, detailed_event, i + 1)

\* the merge without the test for the sentinel
RECURSIVE OverwriteFields_NoSentinel(_, _, _)
OverwriteFields_NoSentinel(merged_event, detailed_event, i) ==
    IF i > Len(fields_to_overwrite) THEN merged_event
    ELSE LET field == fields_to_overwrite[i]
             source_value == Strip(Get(detailed_event, field, <<>>))
         IN IF source_value # <<>>
            THEN OverwriteFields_NoSentinel((field :> source_value) @@ merged_event,
                                            detailed_event, i + 1)
            ELSE OverwriteFields_NoSentinel(merged_event, detailed_event, i + 1)

MergeSingleEvent_NoSentinel(non_detailed_event, detailed_event) ==
    OverwriteFields_NoSentinel(non_detailed_event, detailed_event, 1)

\* merged_event = non_detailed_event.copy(), then the loop over the six fields
MergeSingleEvent(non_detailed_event, detailed_event) ==
    OverwriteFields(non_detailed_event, detailed_event, 1)

FindCommonLinks(nd_map, d_map) == DOMAIN nd_map \cap DOMAIN d_map

\* the loop runs over a set of strings: order is the sequence of links it visits
MergeCommonEvents(nd_map, d_map, order) ==
    [i \in 1..Len(order) |-> MergeSingleEvent(nd_map[order[i]], d_map[order[i]])]

\* the sequences that enumerate a set once each
Orders(S) ==
    {o \in [1..Cardinality(S) -> S] : \A i, j \in 1..Cardinality(S) : o[i] = o[j] => i = j}

\* the filter with the link compared as it is written in the record
FilterNonCommonEvents_Raw(events, links) ==
    SelectSeq(events, LAMBDA event : Get(event, "link", <<>>) \notin links)

\* the filter run over the records of the link map instead of the list: the
\* records without a valid link are lost
FilterNonCommonEvents_DropsInvalid(events, links) ==
    SelectSeq(events, LAMBDA event : ValidKey(LinkKey(event)) /\ LinkKey(event) \notin links)

\* the filter with its test inverted
FilterNonCommonEvents_Inverted(events, links) ==
    SelectSeq(events, LAMBDA event : LinkKey(event) \in links)

FilterNonCommonEvents(events, links) ==
    SelectSeq(events, LAMBDA event : LinkKey(event) \notin links)

\* the sort key: x.get("start_dt", "")
SortKey(event) == Get(event, "start_dt", EmptyStr)

\* a < b raises TypeError unless both are str or both are int
Comparable(a, b) == a.t = b.t /\ a.t \in {"str", "int"}

\* insertion of e into the sorted run s, after every element not greater than
\* e (sorted() is stable); raised as soon as a comparison raises
RECURSIVE InsertByDate(_, _)
InsertByDate(s, e) ==
    IF Len(s) = 0 THEN [raised |-> FALSE, value |-> <<e>>]
    ELSE LET last == s[Len(s)]
         IN IF ~Comparable(SortKey(e), SortKey(last)) THEN [raised |-> TRUE, value |-> <<>>]
            ELSE IF SortKey(e).v < SortKey(last).v
                 THEN LET r == InsertByDate(SubSeq(s, 1, Len(s) - 1), e)
                      IN IF r.raised THEN r
                         ELSE [raised |-> FALSE, value |-> Append(r.value, last)]
                 ELSE [raised |-> FALSE, value |-> Append(s, e)]

RECURSIVE Sorted(_, _)
Sorted(done, rest) ==
    IF Len(rest) = 0 THEN [raised |-> FALSE, value |-> done]
    ELSE LET r == InsertByDate(done, Head(rest))
         IN IF r.raised THEN r ELSE Sorted(r.value, Tail(rest))

\* the sort without its try/except
SortEventsByDate_NoExcept(events) == Sorted(<<>>, events)

\* try: return sorted(events, key=...)  except Exception: return events
SortEventsByDate(events) ==
    LET r == Sorted(<<>>, events)
    IN IF r.raised THEN [raised |-> FALSE, value |-> events] ELSE r

----------------------------------------------------------------------------
(* The merge run: main.run_find_common_events for one city *)

File(data) == [exists |-> TRUE, readable |-> TRUE, data |-> data]
MissingFile == [exists |-> FALSE, readable |-> FALSE, data |-> <<>>]
UnreadableFile == [exists |-> TRUE, readable |-> FALSE, data |-> <<>>]

\* try: json.load(f)  except Exception: return []
LoadJsonFile(file) == IF file.exists /\ file.readable THEN file.data ELSE <<>>

\* open(file, "w") either succeeds, and the dump replaces the content, or raises;
\* the exception is caught and logged and the file is left as it was
SaveOutcomes == {"saved", "open_failed"}

\* the save that writes nothing when the list is empty
SaveEventsToFile_SkipsEmpty(events, file, outcome) ==
    IF outcome = "saved" /\ events # <<>> THEN File(events) ELSE file

SaveEventsToFile(events, file, outcome) ==
    IF outcome = "saved" THEN File(events) ELSE file

A == <<"A">>
B == <<"B">>
N == <<"N">>
x == <<"x">>
y == <<"y">>

NonDetailedRecords ==
    { ("title" :> A),
      ("link" :> <<>>) @@ ("title" :> A),
      ("link" :> NotFound) @@ ("title" :> A),
      ("link" :> x) @@ ("title" :> A) @@ ("start_dt" :> [t |-> "str", v |-> 2]),
      ("link" :> x) @@ ("title" :> B),
      ("link" :> <<" ", "x">>) @@ ("title" :> A) @@ ("start_dt" :> [t |-> "str", v |-> 1]),
      ("link" :> y) @@ ("title" :> A) @@ ("start_dt" :> [t |-> "str", v |-> 1]) }

DetailedRecords ==
    { ("link" :> x) @@ ("title" :> N) @@ ("cost" :> NotFound),
      ("link" :> <<"y", " ">>) @@ ("title" :> <<" ", "N">>),
      ("link" :> NotFound) @@ ("title" :> N) }

Lists(S, n) == UNION {[1..k -> S] : k \in 0..n}

InitCall ==
    /\ pc = "idle"
    /\ call = EmptyDict
    /\ ret = EmptyDict

InitMerge ==
    /\ nonDetailedFile \in {MissingFile, UnreadableFile}
                            \cup {File(l) : l \in Lists(NonDetailedRecords, MaxNonDetailed)}
    /\ detailedFile \in {MissingFile, UnreadableFile}
                            \cup {File(l) : l \in Lists(DetailedRecords, MaxDetailed)}
    /\ outputFile = MissingFile
    /\ runs = 0
    /\ events_non_detailed = <<>>
    /\ events_detailed = <<>>
    /\ non_detailed_link_map = EmptyDict
    /\ detailed_link_map = EmptyDict
    /\ common_links = {}
    /\ common_events = <<>>
    /\ non_common_events = <<>>
    /\ residualWritten = FALSE
    /\ inputWasResidual = FALSE
    /\ InitCall

\* run_find_common_events: a city with a missing input file is skipped
SkipCity ==
    /\ runs < MaxRuns
    /\ ~nonDetailedFile.exists \/ ~detailedFile.exists
    /\ runs' = runs + 1
    /\ UNCHANGED <<nonDetailedFile, detailedFile, outputFile,
                   events_non_detailed, events_detailed, non_detailed_link_map,
                   detailed_link_map, common_links, common_events, non_common_events,
                   residualWritten, inputWasResidual, callVars>>

\* EventMerger.find_and_merge_common_events, from the load to the two saves
FindAndMergeCommonEvents ==
    /\ runs < MaxRuns
    /\ nonDetailedFile.exists /\ detailedFile.exists
    /\ LET nd == LoadJsonFile(nonDetailedFile)
           d == LoadJsonFile(detailedFile)
           nd_map == CreateLinkMap(nd)
           d_map == CreateLinkMap(d)
           links == FindCommonLinks(nd_map, d_map)
       IN \E order \in Orders(links), outSave \in SaveOutcomes, ndSave \in SaveOutcomes :
            LET merged == MergeCommonEvents(nd_map, d_map, order)
                residual == FilterNonCommonEvents(nd, links)
            IN /\ events_non_detailed' = nd
               /\ events_detailed' = d
               /\ non_detailed_link_map' = nd_map
               /\ detailed_link_map' = d_map
               /\ common_links' = links
               /\ common_events' = merged
               /\ non_common_events' = residual
               \* process_and_save_events
               /\ outputFile' = SaveEventsToFile(SortEventsByDate(merged).value, outputFile, outSave)
               /\ nonDetailedFile' =
                      SaveEventsToFile(SortEventsByDate(residual).value, nonDetailedFile, ndSave)
               /\ residualWritten' = (ndSave = "saved")
               \* what the two calls of save_events_to_file logged
               /\ ret' = [output_saved |-> outSave = "saved",
                          non_detailed_saved |-> ndSave = "saved"]
    /\ inputWasResidual' = residualWritten
    /\ runs' = runs + 1
    /\ UNCHANGED <<detailedFile, pc, call>>

NextMerge == SkipCity \/ FindAndMergeCommonEvents

SpecMerge == InitMerge /\ [][NextMerge]_vars

----------------------------------------------------------------------------
(* Calls of single functions: the arguments are drawn in the initial state and
   the action is the call *)

\* the merger is not run in these behaviours
IdleMerger ==
    /\ nonDetailedFile = MissingFile
    /\ detailedFile = MissingFile
    /\ outputFile = MissingFile
    /\ runs = 0
    /\ events_non_detailed = <<>>
    /\ events_detailed = <<>>
    /\ non_detailed_link_map = EmptyDict
    /\ detailed_link_map = EmptyDict
    /\ common_links = {}
    /\ common_events = <<>>
    /\ non_common_events = <<>>
    /\ residualWritten = FALSE
    /\ inputWasResidual = FALSE

L == <<"L">>

\* a field of a record: absent (no key) or one of the values
Field(name, value, present) == IF present THEN name :> value ELSE EmptyDict

NonDetailedFieldValues == {A}

DetailedFieldValues ==
    {<<>>, <<" ">>, B, <<" ", "B", " ">>, NotFound, <<" ">> \o NotFound \o <<" ">>}

NonDetailedEvents ==
    { ("link" :> L) @@ ("image" :> A) @@ Field("title", A, t) @@ Field("cost", A, c)
          @@ Field("type", A, ty) :
        t \in BOOLEAN, c \in BOOLEAN, ty \in BOOLEAN }

DetailedEvents ==
    UNION UNION
      { { { ("link" :> L) @@ ("image" :> B) @@ ("date" :> B)
              @@ Field("title", tv, t) @@ Field("cost", cv, c) @@ Field("type", B, ty) :
            t \in BOOLEAN, c \in BOOLEAN, ty \in BOOLEAN } :
          tv \in DetailedFieldValues } :
        cv \in DetailedFieldValues }

InitField ==
    /\ IdleMerger
    /\ pc = "call"
    /\ call \in [non_detailed_event : NonDetailedEvents, detailed_event : DetailedEvents]
    /\ ret = EmptyDict

\* merged_event = self.merge_single_event(non_detailed_event, detailed_event)
MergeSingleEventCall ==
    /\ pc = "call"
    /\ ret' = MergeSingleEvent(call.non_detailed_event, call.detailed_event)
    /\ pc' = "returned"
    /\ UNCHANGED <<call, mergerVars>>

NextField == MergeSingleEventCall

SpecField == InitField /\ [][NextField]_vars

MaxSortLen == 3     \* records in a list that is sorted

\* records told apart by their title, with a start_dt that is absent, a string,
\* a number or null
SortRecords ==
    { ("title" :> A),
      ("title" :> A) @@ ("start_dt" :> [t |-> "str", v |-> 0]),
      ("title" :> A) @@ ("start_dt" :> [t |-> "str", v |-> 1]),
      ("title" :> B) @@ ("start_dt" :> [t |-> "str", v |-> 1]),
      ("title" :> A) @@ ("start_dt" :> [t |-> "str", v |-> 2]),
      ("title" :> A) @@ ("start_dt" :> [t |-> "int", v |-> 1]),
      ("title" :> A) @@ ("start_dt" :> [t |-> "null", v |-> 0]) }

InitSort ==
    /\ IdleMerger
    /\ pc = "call"
    /\ call \in [events : Lists(SortRecords, MaxSortLen)]
    /\ ret = [raised |-> FALSE, value |-> <<>>]

\* common_events = self.sort_events_by_date(common_events)
SortEventsByDateCall ==
    /\ pc = "call"
    /\ ret' = SortEventsByDate(call.events)
    /\ pc' = "returned"
    /\ UNCHANGED <<call, mergerVars>>

NextSort == SortEventsByDateCall

SpecSort == InitSort /\ [][NextSort]_vars

----------------------------------------------------------------------------
(* Two runs of the merge on the same two input lists, each in a process of its
   own: the set of common links is visited in the order of the string hashes
   of that process.  call holds the two lists; ret holds what each run wrote to
   the output file. *)

MaxInputs == 2      \* records in each of the two input lists

\* records of the links x and y without a start_dt or with one of two
InputRecords ==
    UNION { { ("link" :> link) @@ ("title" :> A),
              ("link" :> link) @@ ("title" :> A) @@ ("start_dt" :> [t |-> "str", v |-> 1]),
              ("link" :> link) @@ ("title" :> A) @@ ("start_dt" :> [t |-> "str", v |-> 2]) } :
            link \in {x, y} }

InputDetailedRecords == { ("link" :> link) @@ ("title" :> N) : link \in {x, y} }

\* what a run hands to json.dump for the output file, the common links being
\* visited in this order
MergedOutput(events_nd, events_d, order) ==
    SortEventsByDate(MergeCommonEvents(CreateLinkMap(events_nd), CreateLinkMap(events_d),
                                       order)).value

CommonLinksOf(events_nd, events_d) ==
    FindCommonLinks(CreateLinkMap(events_nd), CreateLinkMap(events_d))

InitRuns ==
    /\ IdleMerger
    /\ pc = "first"
    /\ call \in [events_non_detailed : Lists(InputRecords, MaxInputs),
                 events_detailed : Lists(InputDetailedRecords, MaxInputs)]
    /\ ret = [first |-> <<>>, second |-> <<>>]

\* find_and_merge_common_events in a first process
FirstRun ==
    /\ pc = "first"
    /\ \E order \in Orders(CommonLinksOf(call.events_non_detailed, call.events_detailed)) :
           ret' = [ret EXCEPT !.first =
                       MergedOutput(call.events_non_detailed, call.events_detailed, order)]
    /\ pc' = "second"
    /\ UNCHANGED <<call, mergerVars>>

\* the same call on the same lists in a second process
SecondRun ==
    /\ pc = "second"
    /\ \E order \in Orders(CommonLinksOf(call.events_non_detailed, call.events_detailed)) :
           ret' = [ret EXCEPT !.second =
                       MergedOutput(call.events_non_detailed, call.events_detailed, order)]
    /\ pc' = "done"
    /\ UNCHANGED <<call, mergerVars>>

NextRuns == FirstRun \/ SecondRun

SpecRuns == InitRuns /\ [][NextRuns]_vars

----------------------------------------------------------------------------
(* merge_single_event on objects: the two arguments and the result are
   references into a heap of dicts, so that a store through one reference is
   seen through every alias of it *)

MergedRef == "merged_event"

\* the merge that works on its argument instead of a copy of it
MergeSingleEventOnHeap_NoCopy(heap, non_detailed_event, detailed_event) ==
    LET merged_event == non_detailed_event
    IN [heap |-> [heap EXCEPT ![merged_event] =
                      OverwriteFields(heap[merged_event], heap[detailed_event], 1)],
        value |-> merged_event]

\* merged_event = non_detailed_event.copy() is a new dict with the same items;
\* merged_event[field] = source_value stores into that new dict only
MergeSingleEventOnHeap(heap, non_detailed_event, detailed_event) ==
    LET merged_event == MergedRef
        copied == (merged_event :> heap[non_detailed_event]) @@ heap
    IN [heap |-> [copied EXCEPT ![merged_event] =
                      OverwriteFields(copied[merged_event], copied[detailed_event], 1)],
        value |-> merged_event]

\* non-detailed records of one link, with or without a date, a start_dt and a title
FrameNonDetailedEvents ==
    { ("link" :> L) @@ ("image" :> A) @@ Field("date", A, d)
          @@ Field("start_dt", [t |-> "str", v |-> 1], s) @@ Field("title", A, t) :
        d \in BOOLEAN, s \in BOOLEAN, t \in BOOLEAN }

FrameTitles == {<<>>, B, <<" ", "B", " ">>, NotFound}

\* detailed records of the same link, written with or without a trailing blank,
\* with other values in every field and a field the non-detailed record has not
FrameDetailedEvents ==
    UNION UNION
      { { { ("link" :> link) @@ ("image" :> B) @@ ("title" :> title)
              @@ Field("date", B, d) @@ Field("start_dt", [t |-> "str", v |-> 2], s)
              @@ Field("cost", B, c) @@ Field("organizer", B, o) :
            d \in BOOLEAN, s \in BOOLEAN, c \in BOOLEAN, o \in BOOLEAN } :
          title \in FrameTitles } :
        link \in {L, <<"L", " ">>} }

InitFrame ==
    /\ IdleMerger
    /\ pc = "call"
    /\ call \in [non_detailed_event : FrameNonDetailedEvents,
                 detailed_event : FrameDetailedEvents]
    /\ ret = EmptyDict

\* the body of the loop of merge_common_events: the two records of a common link
\* are passed by reference and the merged record is what the call returns
MergeCommonEventsStep ==
    /\ pc = "call"
    /\ ret' = MergeSingleEventOnHeap(call, "non_detailed_event", "detailed_event")
    /\ pc' = "returned"
    /\ UNCHANGED <<call, mergerVars>>

NextFrame == MergeCommonEventsStep

SpecFrame == InitFrame /\ [][NextFrame]_vars

----------------------------------------------------------------------------
(* Word wrap: EventCardGenerator.wrap_text, the module-level wrap_text of
   src/event_card_generator.py and WeeklyMotivationCardGenerator._wrap_text_custom *)

MaxTextLen == 4     \* characters of the text before its tail of short paragraphs
MaxWidth == 4       \* largest max_width, in units of the narrow character

StandardMaxLines == 4
StoryMaxLines == 20
LegacyMaxLines == 3

NL == "\n"

\* str.split(): the maximal runs of characters that are not whitespace
RECURSIVE SplitWords(_, _, _)
SplitWords(s, words, word) ==
    IF s = <<>> THEN IF word # <<>> THEN Append(words, word) ELSE words
    ELSE IF Head(s) \in Whitespace
         THEN SplitWords(Tail(s), IF word # <<>> THEN Append(words, word) ELSE words, <<>>)
         ELSE SplitWords(Tail(s), words, Append(word, Head(s)))

Split(s) == SplitWords(s, <<>>, <<>>)

\* str.split(sep) for a separator of one character: one piece more than separators
RECURSIVE SplitAt(_, _, _, _)
SplitAt(s, sep, pieces, piece) ==
    IF s = <<>> THEN Append(pieces, piece)
    ELSE IF Head(s) = sep
         THEN SplitAt(Tail(s), sep, Append(pieces, piece), <<>>)
         ELSE SplitAt(Tail(s), sep, pieces, Append(piece, Head(s)))

SplitOn(s, sep) == SplitAt(s, sep, <<>>, <<>>)

\* sep.join(parts)
RECURSIVE Join(_, _)
Join(parts, sep) ==
    IF parts = <<>> THEN <<>>
    ELSE IF Len(parts) = 1 THEN parts[1]
    ELSE parts[1] \o <<sep>> \o Join(Tail(parts), sep)

\* bbox[2] - bbox[0] of draw.textbbox((0, 0), line, font): the advances of the
\* characters of the line, a wide character counting three narrow ones
RECURSIVE TextWidth(_)
TextWidth(line) ==
    IF line = <<>> THEN 0
    ELSE (IF Head(line) = "W" THEN 3 ELSE 1) + TextWidth(Tail(line))

\* lines[:n]
Take(lines, n) == SubSeq(lines, 1, IF Len(lines) < n THEN Len(lines) ELSE n)

\* the loop of _wrap_paragraph with the width of the word taken for the width
\* of the line
RECURSIVE WrapWords_MeasuresWord(_, _, _, _)
WrapWords_MeasuresWord(words, lines, current_line, max_width) ==
    IF words = <<>> THEN IF current_line # <<>> THEN Append(lines, current_line) ELSE lines
    ELSE LET word == Head(words)
             test_line == IF current_line # <<>> THEN current_line \o <<" ">> \o word ELSE word
         IN IF TextWidth(word) <= max_width
            THEN WrapWords_MeasuresWord(Tail(words), lines, test_line, max_width)
            ELSE WrapWords_MeasuresWord(Tail(words),
                           IF current_line # <<>> THEN Append(lines, current_line) ELSE lines,
                           word, max_width)

WrapParagraph_MeasuresWord(paragraph, max_width) ==
    WrapWords_MeasuresWord(Split(paragraph), <<>>, <<>>, max_width)

\* the loop of _wrap_paragraph without the test that the closed line is not empty
RECURSIVE WrapWords_NoGuard(_, _, _, _)
WrapWords_NoGuard(words, lines, current_line, max_width) ==
    IF words = <<>> THEN IF current_line # <<>> THEN Append(lines, current_line) ELSE lines
    ELSE LET word == Head(words)
             test_line == IF current_line # <<>> THEN current_line \o <<" ">> \o word ELSE word
         IN IF TextWidth(test_line) <= max_width
            THEN WrapWords_NoGuard(Tail(words), lines, test_line, max_width)
            ELSE WrapWords_NoGuard(Tail(words), Append(lines, current_line), word, max_width)

WrapParagraph_NoGuard(paragraph, max_width) ==
    WrapWords_NoGuard(Split(paragraph), <<>>, <<>>, max_width)

\* the loop of _wrap_paragraph that starts an empty line after a line is closed:
\* the word that did not fit is lost
RECURSIVE WrapWords_DropsWord(_, _, _, _)
WrapWords_DropsWord(words, lines, current_line, max_width) ==
    IF words = <<>> THEN IF current_line # <<>> THEN Append(lines, current_line) ELSE lines
    ELSE LET word == Head(words)
             test_line == IF current_line # <<>> THEN current_line \o <<" ">> \o word ELSE word
         IN IF TextWidth(test_line) <= max_width
            THEN WrapWords_DropsWord(Tail(words), lines, test_line, max_width)
            ELSE WrapWords_DropsWord(Tail(words),
                           IF current_line # <<>> THEN Append(lines, current_line) ELSE lines,
                           <<>>, max_width)

WrapParagraph_DropsWord(paragraph, max_width) ==
    WrapWords_DropsWord(Split(paragraph), <<>>, <<>>, max_width)

\* for word in words: ... of _wrap_paragraph, and the closing of the last line
RECURSIVE WrapWords(_, _, _, _)
WrapWords(words, lines, current_line, max_width) ==
    IF words = <<>> THEN IF current_line # <<>> THEN Append(lines, current_line) ELSE lines
    ELSE LET word == Head(words)
             test_line == IF current_line # <<>> THEN current_line \o <<" ">> \o word ELSE word
         IN IF TextWidth(test_line) <= max_width
            THEN WrapWords(Tail(words), lines, test_line, max_width)
            ELSE WrapWords(Tail(words),
                           IF current_line # <<>> THEN Append(lines, current_line) ELSE lines,
                           word, max_width)

WrapParagraph(paragraph, max_width) == WrapWords(Split(paragraph), <<>>, <<>>, max_width)

RECURSIVE WrapParagraphs(_, _, _)
WrapParagraphs(paragraphs, lines, max_width) ==
    IF paragraphs = <<>> THEN lines
    ELSE IF Strip(Head(paragraphs)) = <<>>
         THEN WrapParagraphs(Tail(paragraphs), Append(lines, <<>>), max_width)
         ELSE WrapParagraphs(Tail(paragraphs),
                             lines \o WrapParagraph(Head(paragraphs), max_width), max_width)

WrapTextWithNewlines(text, max_width) == WrapParagraphs(SplitOn(text, NL), <<>>, max_width)

\* "\n" in text
HasNewline(text) == \E i \in 1..Len(text) : text[i] = NL

\* wrap_text with one line more than the cap
WrapText_OffByOne(text, max_width, max_description_lines) ==
    Take(IF HasNewline(text) THEN WrapTextWithNewlines(text, max_width)
                             ELSE WrapParagraph(text, max_width),
         max_description_lines + 1)

\* EventCardGenerator.wrap_text, max_description_lines being self.max_description_lines
WrapText(text, max_width, max_description_lines) ==
    Take(IF HasNewline(text) THEN WrapTextWithNewlines(text, max_width)
                             ELSE WrapParagraph(text, max_width),
         max_description_lines)

\* wrap_text of src/event_card_generator.py
LegacyWrapText(text, max_width) ==
    Take(WrapWords(Split(text), <<>>, <<>>, max_width), LegacyMaxLines)

\* the loop of _wrap_text_custom: current_line is a list of words
RECURSIVE WrapWordsCustom(_, _, _, _)
WrapWordsCustom(words, lines, current_line, max_width) ==
    IF words = <<>>
    THEN IF current_line # <<>> THEN Append(lines, Join(current_line, " ")) ELSE lines
    ELSE LET word == Head(words)
             test_line == Join(Append(current_line, word), " ")
         IN IF TextWidth(test_line) <= max_width
            THEN WrapWordsCustom(Tail(words), lines, Append(current_line, word), max_width)
            ELSE IF current_line # <<>>
                 THEN WrapWordsCustom(Tail(words), Append(lines, Join(current_line, " ")),
                                      <<word>>, max_width)
                 ELSE WrapWordsCustom(Tail(words), Append(lines, word), <<>>, max_width)

WrapTextCustom(text, max_width) == WrapWordsCustom(Split(text), <<>>, <<>>, max_width)

\* the composers and the wrap each of them calls
Variants == {"standard", "story", "legacy", "weekly"}

Wrap(variant, text, max_width) ==
    CASE variant = "standard" -> WrapText(text, max_width, StandardMaxLines)
      [] variant = "story" -> WrapText(text, max_width, StoryMaxLines)
      [] variant = "legacy" -> LegacyWrapText(text, max_width)
      [] variant = "weekly" -> WrapTextCustom(text, max_width)

Alphabet == {"a", "W", " ", NL}

\* n short paragraphs, each on a line of its own
RECURSIVE Paragraphs(_)
Paragraphs(n) == IF n = 0 THEN <<>> ELSE <<NL, "a">> \o Paragraphs(n - 1)

\* the texts: every text of at most MaxTextLen characters, alone and followed by
\* more paragraphs than the largest line cap
Texts ==
    {base \o Paragraphs(n) : base \in Lists(Alphabet, MaxTextLen), n \in {0, StoryMaxLines + 1}}

InitWrap ==
    /\ IdleMerger
    /\ pc = "call"
    /\ call \in [variant : Variants, text : Texts, max_width : 1..MaxWidth]
    /\ ret = [lines |-> <<>>, rewrapped |-> <<>>]

\* lines = self.wrap_text(text, font_type, max_desc_width, draw)
WrapTextCall ==
    /\ pc = "call"
    /\ ret' = [ret EXCEPT !.lines = Wrap(call.variant, call.text, call.max_width)]
    /\ pc' = "wrapped"
    /\ UNCHANGED <<call, mergerVars>>

\* the lines are joined by newlines and wrapped again at the same width
RewrapCall ==
    /\ pc = "wrapped"
    /\ ret' = [ret EXCEPT !.rewrapped = Wrap(call.variant, Join(ret.lines, NL), call.max_width)]
    /\ pc' = "rewrapped"
    /\ UNCHANGED <<call, mergerVars>>

NextWrap == WrapTextCall \/ RewrapCall

SpecWrap == InitWrap /\ [][NextWrap]_vars

----------------------------------------------------------------------------
(* Banner colour: EventCardGenerator.get_color *)

MaxParts == 2       \* parts a date string is put together from

LowerCase == <<"a", "b", "c", "d", "e", "f", "g", "h", "i", "j", "k", "l", "m", "n", "o", "p", "q", "r", "s", "t", "u", "v", "w", "x", "y", "z", "é", "á">>
UpperCase == <<"A", "B", "C", "D", "E", "F", "G", "H", "I", "J", "K", "L", "M", "N", "O", "P", "Q", "R", "S", "T", "U", "V", "W", "X", "Y", "Z", "É", "Á">>

\* str.upper(), character by character
UpperChar(c) ==
    IF \E i \in 1..Len(LowerCase) : LowerCase[i] = c
    THEN UpperCase[CHOOSE i \in 1..Len(LowerCase) : LowerCase[i] = c]
    ELSE c

Upper(str) == [i \in 1..Len(str) |-> UpperChar(str[i])]

\* sub in str
Contains(sub, str) ==
    \E i \in 0..(Len(str) - Len(sub)) : SubSeq(str, i + 1, i + Len(sub)) = sub

\* any(d in day for d in names)
AnyIn(names, day) == \E i \in 1..Len(names) : Contains(names[i], day)

FR_DAYS == <<<<"L", "u", "n", "d", "i">>,
            <<"M", "a", "r", "d", "i">>,
            <<"M", "e", "r", "c", "r", "e", "d", "i">>,
            <<"J", "e", "u", "d", "i">>,
            <<"V", "e", "n", "d", "r", "e", "d", "i">>,
            <<"S", "a", "m", "e", "d", "i">>,
            <<"D", "i", "m", "a", "n", "c", "h", "e">>>>

ES_DAYS == <<<<"L", "u", "n", "e", "s">>,
            <<"M", "a", "r", "t", "e", "s">>,
            <<"M", "i", "é", "r", "c", "o", "l", "e", "s">>,
            <<"J", "u", "e", "v", "e", "s">>,
            <<"V", "i", "e", "r", "n", "e", "s">>,
            <<"S", "á", "b", "a", "d", "o">>,
            <<"D", "o", "m", "i", "n", "g", "o">>>>

EN_DAYS == <<<<"M", "o", "n", "d", "a", "y">>,
            <<"T", "u", "e", "s", "d", "a", "y">>,
            <<"W", "e", "d", "n", "e", "s", "d", "a", "y">>,
            <<"T", "h", "u", "r", "s", "d", "a", "y">>,
            <<"F", "r", "i", "d", "a", "y">>,
            <<"S", "a", "t", "u", "r", "d", "a", "y">>,
            <<"S", "u", "n", "d", "a", "y">>>>

\* the names get_color looks for, one list for each day from Monday to Sunday
DayTokens ==
    <<<<<<"L", "U", "N", "E", "S">>, <<"L", "U", "N", "D", "I">>, <<"M", "O", "N", "D", "A", "Y">>>>,
      <<<<"M", "A", "R", "T", "E", "S">>, <<"M", "A", "R", "D", "I">>, <<"T", "U", "E", "S", "D", "A", "Y">>>>,
      <<<<"M", "I", "E", "R", "C", "O", "L", "E", "S">>, <<"M", "E", "R", "C", "R", "E", "D", "I">>, <<"W", "E", "D", "N", "E", "S", "D", "A", "Y">>>>,
      <<<<"J", "U", "E", "V", "E", "S">>, <<"J", "E", "U", "D", "I">>, <<"T", "H", "U", "R", "S", "D", "A", "Y">>>>,
      <<<<"V", "I", "E", "R", "N", "E", "S">>, <<"V", "E", "N", "D", "R", "E", "D", "I">>, <<"F", "R", "I", "D", "A", "Y">>>>,
      <<<<"S", "A", "B", "A", "D", "O">>, <<"S", "A", "M", "E", "D", "I">>, <<"S", "A", "T", "U", "R", "D", "A", "Y">>>>,
      <<<<"D", "O", "M", "I", "N", "G", "O">>, <<"D", "I", "M", "A", "N", "C", "H", "E">>, <<"S", "U", "N", "D", "A", "Y">>>>>>

\* the colour of each day, from Monday to Sunday
DayColors ==
    <<<<255, 152, 0>>, <<33, 150, 243>>, <<204, 153, 0>>, <<156, 39, 176>>, <<244, 67, 54>>, <<76, 175, 80>>, <<0, 150, 136>>>>

DefaultColor == <<255, 152, 0>>

\* get_color without its final else: the function ends without a return
RECURSIVE ColorFrom_NoDefault(_, _)
ColorFrom_NoDefault(day, i) ==
    IF i > Len(DayTokens) THEN <<>>
    ELSE IF AnyIn(DayTokens[i], day) THEN DayColors[i]
    ELSE ColorFrom_NoDefault(day, i + 1)

GetColor_NoDefault(date) == ColorFrom_NoDefault(Upper(date), 1)

\* the if / elif chain from branch i on
RECURSIVE ColorFrom(_, _)
ColorFrom(day, i) ==
    IF i > Len(DayTokens) THEN DefaultColor
    ELSE IF AnyIn(DayTokens[i], day) THEN DayColors[i]
    ELSE ColorFrom(day, i + 1)

\* day = date.upper(), then the chain
GetColor(date) == ColorFrom(Upper(date), 1)

\* the parts of the date strings: the names of the days as main.py writes them,
\* in other letter cases and without accents, and text that names no day
DateParts ==
    {FR_DAYS[i] : i \in 1..7} \cup {ES_DAYS[i] : i \in 1..7} \cup {EN_DAYS[i] : i \in 1..7}
    \cup { <<"l", "u", "n", "d", "i">>,
           <<"M", "O", "N", "D", "A", "Y">>,
           <<"M", "i", "e", "r", "c", "o", "l", "e", "s">>,
           <<"s", "a", "b", "a", "d", "o">>,
           <<"S", "Á", "B", "A", "D", "O">>,
           <<" ">>, <<"1", "2", "h">>, <<"L", "u", "n">>, <<"d", "a", "y">>, <<"M", "A", "R", "S">> }

RECURSIVE Concat(_)
Concat(parts) == IF parts = <<>> THEN <<>> ELSE Head(parts) \o Concat(Tail(parts))

Dates == {Concat(parts) : parts \in Lists(DateParts, MaxParts)}

InitColor ==
    /\ IdleMerger
    /\ pc = "call"
    /\ call \in [date : Dates]
    /\ ret = <<>>

\* banner_color = self.get_color(event["date"])
GetColorCall ==
    /\ pc = "call"
    /\ ret' = GetColor(call.date)
    /\ pc' = "returned"
    /\ UNCHANGED <<call, mergerVars>>

NextColor == GetColorCall

SpecColor == InitColor /\ [][NextColor]_vars

----------------------------------------------------------------------------
(* Gradient colours: StoryEventCardGenerator.get_gradient_colors, called by
   create_event_card just before get_color with the same date *)

background_color == <<255, 255, 255>>

\* the top colour of each day, from Monday to Sunday
GradientColors ==
    <<<<255, 193, 7>>, <<63, 81, 181>>, <<255, 235, 59>>, <<156, 39, 176>>, <<244, 67, 54>>, <<76, 175, 80>>, <<76, 175, 80>>>>

DefaultGradientColor == <<255, 193, 7>>

\* the if / elif chain from branch i on
RECURSIVE GradientFrom(_, _)
GradientFrom(day, i) ==
    IF i > Len(DayTokens) THEN <<DefaultGradientColor, background_color>>
    ELSE IF AnyIn(DayTokens[i], day) THEN <<GradientColors[i], background_color>>
    ELSE GradientFrom(day, i + 1)

\* the gradient that starts from the colour of the banner
GetGradientColors_FromBanner(date) == <<GetColor(date), background_color>>

\* day = date.upper(), then the chain
GetGradientColors(date) == GradientFrom(Upper(date), 1)

InitGradient ==
    /\ IdleMerger
    /\ pc = "call"
    /\ call \in [date : Dates]
    /\ ret = [gradient_colors |-> <<>>, banner_color |-> <<>>]

\* gradient_colors = self.get_gradient_colors(event["date"])
GetGradientColorsCall ==
    /\ pc = "call"
    /\ ret' = [ret EXCEPT !.gradient_colors = GetGradientColors(call.date)]
    /\ pc' = "gradient"
    /\ UNCHANGED <<call, mergerVars>>

\* banner_color = self.get_color(event["date"])
BannerColorCall ==
    /\ pc = "gradient"
    /\ ret' = [ret EXCEPT !.banner_color = GetColor(call.date)]
    /\ pc' = "returned"
    /\ UNCHANGED <<call, mergerVars>>

NextGradient == GetGradientColorsCall \/ BannerColorCall

SpecGradient == InitGradient /\ [][NextGradient]_vars

----------------------------------------------------------------------------
(* The drawing cursor: the operations of the composers that take a y position
   and return the y position below what they drew *)

MaxY == 2       \* largest y position an operation is given

\* the composers: EventCardGenerator, StoryEventCardGenerator and
\* MotivationCardGenerator
Composers == {"standard", "story", "motivation"}

banner_height(composer) ==
    CASE composer = "standard" -> 90
      [] composer = "story" -> 120
      [] composer = "motivation" -> 150

banner_angle_offset(composer) == IF composer = "motivation" THEN 0 ELSE 20

line_spacing(composer) == IF composer = "motivation" THEN 100 ELSE 40

section_spacing == 80

max_description_lines(composer) ==
    IF composer = "story" THEN StoryMaxLines ELSE StandardMaxLines

\* an optional argument: <<>> is None, <<n>> is the number n
None == <<>>
Some(n) == <<n>>

\* option or default: None and 0 are falsy
Or(option, default) ==
    IF option = None \/ option[1] = 0 THEN default ELSE option[1]

\* int(n / 2) for n >= 0
IntHalf(n) == n \div 2

DrawBanner(composer, banner_start_y) ==
    banner_start_y + banner_height(composer) + banner_angle_offset(composer) + 30

\* the cursor moved by the lines only
SplitText_LinesOnly(composer, text, y_position, max_desc_width, spacing) ==
    y_position
    + Len(WrapText(text, max_desc_width, max_description_lines(composer))) * line_spacing(composer)

\* lines = self.wrap_text(...); the cursor moves one line_spacing per line and
\* half the section spacing
SplitText(composer, text, y_position, max_desc_width, spacing) ==
    y_position
    + Len(WrapText(text, max_desc_width, max_description_lines(composer))) * line_spacing(composer)
    + IntHalf(Or(spacing, section_spacing))

\* with split_text the spacing argument is not handed on
AddEventInfo(composer, text, y_position, max_desc_width, spacing, split_text) ==
    IF split_text
    THEN SplitText(composer, text, y_position, max_desc_width, None)
    ELSE y_position + Or(spacing, section_spacing)

AddSeparatorLine(y_position) == y_position + 30

\* the text is drawn padding_y = 20 below y_position:
\* (rect_height - text_height) // 2 with rect_height = text_height + 2 * 20
DrawRoundedRectangleBanner(composer, text, y_position, max_desc_width) ==
    AddEventInfo(composer, text, y_position + ((2 * 20) \div 2), max_desc_width, None, FALSE)

\* EventCardGenerator.add_content: type, title, description, cost, line, location
EventAddContent(composer, event, content_start_y, max_desc_width) ==
    LET y0 == content_start_y + 20
        y1 == AddEventInfo(composer, event.type, y0, max_desc_width, None, FALSE)
        y2 == AddEventInfo(composer, event.title, y1, max_desc_width, None, FALSE)
        y3 == AddEventInfo(composer, event.description, y2, max_desc_width, None, TRUE)
        y4 == AddEventInfo(composer, event.cost, y3, max_desc_width, Some(50), FALSE)
        y5 == AddSeparatorLine(y4)
    IN  AddEventInfo(composer, event.location, y5, max_desc_width, Some(50), FALSE)

\* MotivationCardGenerator.add_content: the Spanish text, then the French text
\* in its rounded rectangle
MotivationAddContent(composer, card_data, content_start_y, max_desc_width) ==
    LET y0 == content_start_y + 150
        y1 == AddEventInfo(composer, card_data.spanish_text \o <<" ">> \o card_data.emoji,
                           y0, max_desc_width, Some(100), TRUE)
    IN  DrawRoundedRectangleBanner(composer, card_data.french_text \o <<" ">> \o card_data.emoji,
                                   y1, max_desc_width)

AddContent(composer, record, content_start_y, max_desc_width) ==
    IF composer = "motivation"
    THEN MotivationAddContent(composer, record, content_start_y, max_desc_width)
    ELSE EventAddContent(composer, record, content_start_y, max_desc_width)

\* the texts drawn: empty, one word, several words, two paragraphs
CursorTexts ==
    { <<>>, <<"a">>, <<"a", " ", "a">>, <<"W", " ", "a", " ", "W">>, <<"a", NL, "a">> }

\* the spacing arguments: none, 0, and spacings from 1 pixel on
Spacings == {None, Some(0), Some(1), Some(2), Some(50), Some(100)}

\* a record whose long text is text: the description of an event, or the
\* Spanish text of a motivation card
CursorRecord(text) ==
    [type |-> <<"t">>, title |-> <<"a">>, description |-> text, cost |-> <<>>,
     location |-> <<"a">>, spanish_text |-> text, french_text |-> <<"a">>, emoji |-> <<"e">>]

CursorOps ==
    {"draw_banner", "add_event_info", "split_text", "add_separator_line",
     "draw_rounded_rectangle_banner", "add_content"}

InitCursor ==
    /\ IdleMerger
    /\ pc = "call"
    /\ call \in [op : CursorOps, composer : Composers, text : CursorTexts,
                 y : 0..MaxY, max_desc_width : {1, MaxWidth},
                 section_spacing : Spacings, split_text : BOOLEAN]
    /\ call.op # "add_event_info" => ~call.split_text
    /\ call.op \notin {"add_event_info", "split_text"} => call.section_spacing = None
    /\ call.op \in {"draw_banner", "add_separator_line"} => call.text = <<>>
    /\ call.op = "draw_rounded_rectangle_banner" => call.composer = "motivation"
    /\ ret = -1

Returns(cursor) ==
    /\ ret' = cursor
    /\ pc' = "returned"
    /\ UNCHANGED <<call, mergerVars>>

DrawBannerCall ==
    /\ pc = "call" /\ call.op = "draw_banner"
    /\ Returns(DrawBanner(call.composer, call.y))

AddEventInfoCall ==
    /\ pc = "call" /\ call.op = "add_event_info"
    /\ Returns(AddEventInfo(call.composer, call.text, call.y, call.max_desc_width,
                            call.section_spacing, call.split_text))

SplitTextCall ==
    /\ pc = "call" /\ call.op = "split_text"
    /\ Returns(SplitText(call.composer, call.text, call.y, call.max_desc_width,
                         call.section_spacing))

AddSeparatorLineCall ==
    /\ pc = "call" /\ call.op = "add_separator_line"
    /\ Returns(AddSeparatorLine(call.y))

DrawRoundedRectangleBannerCall ==
    /\ pc = "call" /\ call.op = "draw_rounded_rectangle_banner"
    /\ Returns(DrawRoundedRectangleBanner(call.composer, call.text, call.y, call.max_desc_width))

AddContentCall ==
    /\ pc = "call" /\ call.op = "add_content"
    /\ Returns(AddContent(call.composer, CursorRecord(call.text), call.y, call.max_desc_width))

NextCursor ==
    \/ DrawBannerCall
    \/ AddEventInfoCall
    \/ SplitTextCall
    \/ AddSeparatorLineCall
    \/ DrawRoundedRectangleBannerCall
    \/ AddContentCall

SpecCursor == InitCursor /\ [][NextCursor]_vars

----------------------------------------------------------------------------
(* split_text with what it draws *)

\* for i, line in enumerate(lines): pilmoji.text((x, y_position + i * line_spacing), line)
SplitTextDraws(composer, text, y_position, max_desc_width) ==
    LET lines == WrapText(text, max_desc_width, max_description_lines(composer))
    IN [i \in 1..Len(lines) |->
            [y |-> y_position + (i - 1) * line_spacing(composer), line |-> lines[i]]]

InitSplit ==
    /\ IdleMerger
    /\ pc = "call"
    /\ call \in [composer : Composers, text : CursorTexts, y : 0..MaxY,
                 max_desc_width : {1, MaxWidth}, section_spacing : Spacings]
    /\ ret = [draws |-> <<>>, cursor |-> -1]

\* split_text(card, text, y_position, font_type, section_spacing=...)
SplitTextDrawCall ==
    /\ pc = "call"
    /\ ret' = [draws |-> SplitTextDraws(call.composer, call.text, call.y, call.max_desc_width),
               cursor |-> SplitText(call.composer, call.text, call.y, call.max_desc_width,
                                    call.section_spacing)]
    /\ pc' = "returned"
    /\ UNCHANGED <<call, mergerVars>>

NextSplit == SplitTextDrawCall

SpecSplit == InitSplit /\ [][NextSplit]_vars

----------------------------------------------------------------------------
(* Composing one card: EventCardGenerator.create_event_card,
   StoryEventCardGenerator.create_event_card and
   MotivationCardGenerator.create_motivation_card, statement by statement.
   call holds the arguments and what the call finds (the keys of the record,
   the state of the image or logo, the file at the output path); ret holds the
   card drawn so far, the file at the output path and the exception raised. *)

\* the composers with the card saved before the content is added
Steps_SaveBeforeContent(composer) ==
    IF composer = "motivation"
    THEN <<"new_card", "add_header", "add_banner", "save", "add_content">>
    ELSE <<"new_card", "load_and_process_image", "draw_banner", "add_banner_text",
           "save", "add_content">>

\* the story composer with add_content called where add_event_content is
Steps_StoryAddContent(composer) ==
    CASE composer = "standard" ->
            <<"new_card", "load_and_process_image", "draw_banner", "add_banner_text",
              "add_content", "save">>
      [] composer = "story" ->
            <<"new_card", "create_gradient_background", "draw_banner", "add_banner_text",
              "add_content", "load_and_process_image", "save">>
      [] composer = "motivation" ->
            <<"new_card", "add_header", "add_banner", "add_content", "save">>

\* the statements of the composers, in the order of the code
Steps(composer) ==
    CASE composer = "standard" ->
            <<"new_card", "load_and_process_image", "draw_banner", "add_banner_text",
              "add_content", "save">>
      [] composer = "story" ->
            <<"new_card", "create_gradient_background", "draw_banner", "add_banner_text",
              "add_event_content", "load_and_process_image", "save">>
      [] composer = "motivation" ->
            <<"new_card", "add_header", "add_banner", "add_content", "save">>

\* the keys a composer looks up in its record
RequiredFields(composer) ==
    CASE composer = "standard" ->
            {"image", "date", "type", "title", "description", "cost", "location"}
      [] composer = "story" ->
            {"image", "date", "type", "title", "description_long", "cost", "location"}
      [] composer = "motivation" ->
            {"date", "day_name_fr", "day_name_es", "spanish_text", "french_text", "emoji"}

\* the keys a statement looks up: event["..."] and card_data["..."]
StepFields(composer, step) ==
    CASE step = "load_and_process_image" /\ composer = "standard" -> {"image"}
      [] step \in {"create_gradient_background", "draw_banner", "add_banner_text"} -> {"date"}
      [] step = "add_header" -> {"date"}
      [] step = "add_banner" -> {"day_name_fr", "day_name_es"}
      [] step = "add_content" /\ composer = "motivation" -> {"spanish_text", "emoji", "french_text"}
      [] step = "add_content" /\ composer # "motivation" ->
            {"type", "title", IF composer = "story" THEN "description_long" ELSE "description",
             "cost", "location"}
      [] OTHER -> {}

\* what requests.get and Image.open find at the image or logo path
ImageStates == {"loadable", "fetch_failed", "not_an_image", "missing_file"}

\* the exception load_and_process_image ends with, "none" when the image is pasted
ImageError(image) ==
    CASE image = "loadable" -> "none"
      [] image = "fetch_failed" -> "ConnectionError"
      [] image = "not_an_image" -> "UnidentifiedImageError"
      [] image = "missing_file" -> "FileNotFoundError"

\* the exception a statement ends with, "none" when it runs to its end:
\* add_event_content is defined in no class of the package; the story composer
\* calls load_and_process_image(event) without two positional arguments; a key
\* the record lacks is a KeyError; the image or logo is loaded by
\* load_and_process_image and add_header
StepError(composer, step, record, image) ==
    IF step = "add_event_content" THEN "AttributeError"
    ELSE IF step = "load_and_process_image" /\ composer = "story" THEN "TypeError"
    ELSE IF ~(StepFields(composer, step) \subseteq record) THEN "KeyError"
    ELSE IF step \in {"load_and_process_image", "add_header"} THEN ImageError(image)
    ELSE "none"

\* the statements from the i-th on: the first exception, or "saved"
RECURSIVE RunFrom(_, _, _, _)
RunFrom(composer, record, image, i) ==
    IF i > Len(Steps(composer)) THEN "saved"
    ELSE IF StepError(composer, Steps(composer)[i], record, image) # "none"
    THEN StepError(composer, Steps(composer)[i], record, image)
    ELSE RunFrom(composer, record, image, i + 1)

\* create_event_card / create_motivation_card as one call
CreateCard(composer, record, image) == RunFrom(composer, record, image, 1)

OldImage == <<"old image">>

\* records with every key, and records with one key missing
Records(composer) ==
    {RequiredFields(composer)} \cup {RequiredFields(composer) \ {f} : f \in RequiredFields(composer)}

InitCompose ==
    /\ IdleMerger
    /\ pc = "compose"
    /\ \E composer \in Composers :
           call \in [composer : {composer}, record : Records(composer), image : ImageStates,
                     output : {MissingFile, File(OldImage)}]
    /\ ret = [step |-> 1, card |-> <<>>, file |-> call.output, writes |-> 0, raised |-> "none"]

AtStep(step) ==
    /\ pc = "compose"
    /\ Steps(call.composer)[ret.step] = step

\* the statement raises: create_event_card has no try, the exception leaves it
Raise(error) ==
    /\ pc' = "raised"
    /\ ret' = [ret EXCEPT !.raised = error]
    /\ UNCHANGED <<call, mergerVars>>

\* the statement ends and the next one is reached
Drawn(step) ==
    /\ pc' = pc
    /\ ret' = [ret EXCEPT !.step = @ + 1, !.card = Append(@, step)]
    /\ UNCHANGED <<call, mergerVars>>

\* a statement runs: it raises or it draws
Draws(step) ==
    /\ AtStep(step)
    /\ IF StepError(call.composer, step, call.record, call.image) = "none"
       THEN Drawn(step)
       ELSE Raise(StepError(call.composer, step, call.record, call.image))

\* card = Image.new("RGB", ...)
NewCard == Draws("new_card")

\* standard: event["image"], then the fetch and the decoding; story: the call
\* self.load_and_process_image(event) lacks two positional arguments
LoadAndProcessImage == Draws("load_and_process_image")

\* story: get_gradient_colors(event["date"]), create_gradient_background
CreateGradientBackground == Draws("create_gradient_background")

\* get_color(event["date"]), draw_banner
DrawBannerStep == Draws("draw_banner")

AddBannerText == Draws("add_banner_text")

\* add_content of the event cards and of the motivation card
AddContentStep == Draws("add_content")

\* story: self.add_event_content is defined in no class of the package
AddEventContent == Draws("add_event_content")

\* motivation: card_data["date"], then the logo is loaded and opened
AddHeader == Draws("add_header")

\* motivation: card_data["day_name_fr"], card_data["day_name_es"]
AddBanner == Draws("add_banner")

\* card.save(output_path, quality=95), then the function returns
Save ==
    /\ AtStep("save")
    /\ ret' = [ret EXCEPT !.step = @ + 1, !.file = File(ret.card), !.writes = @ + 1]
    /\ pc' = IF ret.step = Len(Steps(call.composer)) THEN "done" ELSE pc
    /\ UNCHANGED <<call, mergerVars>>

NextCompose ==
    \/ NewCard
    \/ LoadAndProcessImage
    \/ CreateGradientBackground
    \/ DrawBannerStep
    \/ AddBannerText
    \/ AddContentStep
    \/ AddEventContent
    \/ AddHeader
    \/ AddBanner
    \/ Save

SpecCompose == InitCompose /\ [][NextCompose]_vars

\* the interpreter runs a call to its end: a statement that can run does run
SpecComposeFair == SpecCompose /\ WF_vars(NextCompose)

----------------------------------------------------------------------------
(* One composer instance over several compose calls: the configuration its
   constructor sets and the statements that store into it.  call holds the
   instance's class and size and the arguments of the current call; ret holds
   the configuration, the number of calls ended and the position in the
   current one. *)

MaxCalls == 2       \* compose calls on one instance

CardHeights == {1350, 1920}

start_card(composer) ==
    CASE composer = "standard" -> 0
      [] composer = "story" -> 20
      [] composer = "motivation" -> 50

\* the attributes set by __init__ of the class and of its base class
Config(composer, height) ==
    [card_width |-> 1080,
     card_height |-> height,
     start_card |-> start_card(composer),
     margin |-> IF composer = "motivation" THEN 0 ELSE 40,
     left_margin |-> IF composer = "motivation" THEN 150 ELSE 40,
     right_margin |-> IF composer = "motivation" THEN 150 ELSE 40,
     banner_angle_offset |-> banner_angle_offset(composer),
     banner_height |-> banner_height(composer),
     max_crop_height |-> 675,
     banner_font_size |-> IF composer = "motivation" THEN 60 ELSE 42,
     type_font_size |-> 33,
     title_font_size |-> 35,
     desc_font_size |-> 30,
     cost_font_size |-> 30,
     location_font_size |-> 30,
     line_spacing |-> line_spacing(composer),
     section_spacing |-> section_spacing,
     max_description_lines |-> max_description_lines(composer)]

\* the y position the content statement returns for a one-word description
ContentEndY(composer) ==
    AddContent(composer, CursorRecord(<<"a">>), DrawBanner(composer, start_card(composer)),
               MaxWidth)

\* the only store into self outside the constructors: the story composer sets
\* self.max_crop_height = (self.card_height - 20) - (content_end_y + 20) right
\* before it calls load_and_process_image
ConfigAfter(composer, step, config) ==
    IF composer = "story" /\ step = "load_and_process_image"
    THEN [config EXCEPT !.max_crop_height =
              (config.card_height - 20) - (ContentEndY(composer) + 20)]
    ELSE config

InitInstance ==
    /\ IdleMerger
    /\ pc = "idle"
    /\ call \in [composer : Composers, height : CardHeights, record : {{}},
                 image : {"loadable"}]
    /\ ret = [config |-> Config(call.composer, call.height), calls |-> 0, step |-> 0,
              raised |-> "none"]

\* generator.create_event_card(event, path) / create_motivation_card(card_data, path)
CreateCardCall ==
    /\ pc = "idle"
    /\ ret.calls < MaxCalls
    /\ \E record \in Records(call.composer), image \in ImageStates :
           call' = [call EXCEPT !.record = record, !.image = image]
    /\ ret' = [ret EXCEPT !.step = 1, !.raised = "none"]
    /\ pc' = "compose"
    /\ UNCHANGED mergerVars

\* the next statement of the call runs: it may store into self, and it raises,
\* which ends the call, or it ends, and after the last one the call returns
RunStatement ==
    /\ pc = "compose"
    /\ LET step == Steps(call.composer)[ret.step]
           error == StepError(call.composer, step, call.record, call.image)
           ended == error # "none" \/ ret.step = Len(Steps(call.composer))
       IN /\ ret' = [config |-> ConfigAfter(call.composer, step, ret.config),
                     calls |-> IF ended THEN ret.calls + 1 ELSE ret.calls,
                     step |-> IF ended THEN 0 ELSE ret.step + 1,
                     raised |-> error]
          /\ pc' = IF ended THEN "idle" ELSE "compose"
    /\ UNCHANGED <<call, mergerVars>>

NextInstance == CreateCardCall \/ RunStatement

SpecInstance == InitInstance /\ [][NextInstance]_vars

----------------------------------------------------------------------------
(* The layout of the standard card of 1080x1350: the size of the image as
   load_and_process_image pastes it, and the y positions create_event_card
   draws at.  call holds the size of the source image and the description;
   ret holds the size of the pasted image and the positions. *)

MaxParagraphs == 5      \* paragraphs of the longest description

\* widths and heights of the source images, in pixels
ImageSides == {1, 300, 675, 676, 1000, 1001, 1080, 4000}

\* descriptions of no line, of one line and of more
Descriptions == {<<>>, <<"a">>} \cup {<<"a">> \o Paragraphs(n) : n \in 1..MaxParagraphs}

StandardConfig == Config("standard", 1350)

\* int(n * resize_ratio) with resize_ratio = available_width / img_width in
\* floating point: the integer part of the quotient, or one less when the
\* division is exact and the product is rounded just below it
Scaled(n, available_width, img_width) ==
    LET exact == (n * available_width) \div img_width
    IN IF (n * available_width) % img_width = 0 /\ exact > 0
       THEN {exact - 1, exact}
       ELSE {exact}

\* the crop without the test of the height
Cropped_NoCrop(size, max_crop_height) == size

\* if img_height > self.max_crop_height: img = img.crop((0, 0, img_width, max_crop_height))
Cropped(size, max_crop_height) ==
    IF size.height > max_crop_height THEN [size EXCEPT !.height = max_crop_height]
    ELSE size

\* the sizes the image can have after the resize: as it is when it is not
\* wider than the card less its margins, else scaled to that width
Resized(size, config) ==
    LET available_width == config.card_width - 2 * config.margin
    IN IF size.width > available_width
       THEN {[width |-> new_width, height |-> new_height] :
                new_width \in Scaled(size.width, available_width, size.width),
                new_height \in Scaled(size.height, available_width, size.width)}
       ELSE {size}

\* add_content with the position of everything it draws
EventContentLayout(composer, event, content_start_y, max_desc_width) ==
    LET type_y == content_start_y + 20
        title_y == AddEventInfo(composer, event.type, type_y, max_desc_width, None, FALSE)
        description_y ==
            AddEventInfo(composer, event.title, title_y, max_desc_width, None, FALSE)
        cost_y ==
            AddEventInfo(composer, event.description, description_y, max_desc_width, None, TRUE)
        separator_y ==
            AddEventInfo(composer, event.cost, cost_y, max_desc_width, Some(50), FALSE)
        location_y == AddSeparatorLine(separator_y)
        draws == SplitTextDraws(composer, event.description, description_y, max_desc_width)
    IN [type |-> type_y,
        title |-> title_y,
        description |-> [i \in 1..Len(draws) |-> draws[i].y],
        cost |-> cost_y,
        separator |-> separator_y,
        location |-> location_y,
        cursor |-> AddEventInfo(composer, event.location, location_y, max_desc_width,
                                Some(50), FALSE)]

InitLayout ==
    /\ IdleMerger
    /\ pc = "load"
    /\ call \in [img_width : ImageSides, img_height : ImageSides, description : Descriptions]
    /\ ret = [image |-> [width |-> 0, height |-> 0], banner_start_y |-> 0,
              banner |-> <<>>, banner_text_y |-> 0, content_start_y |-> 0,
              layout |-> EmptyDict]

\* banner_start_y = self.load_and_process_image(card, event["image"], self.start_card):
\* the image is pasted at start_card and its height is returned; a resize to a
\* side of 0 pixels may raise
LoadImageStep ==
    /\ pc = "load"
    /\ \E resized \in Resized([width |-> call.img_width, height |-> call.img_height],
                              StandardConfig) :
          LET img == Cropped(resized, StandardConfig.max_crop_height)
          IN \/ /\ ret' = [ret EXCEPT !.image = img, !.banner_start_y = img.height]
                /\ pc' = "banner"
             \/ /\ resized.width = 0 \/ resized.height = 0
                /\ ret' = ret
                /\ pc' = "raised"
    /\ UNCHANGED <<call, mergerVars>>

\* draw_banner and add_banner_text: the polygon from banner_start_y to
\* banner_start_y + banner_height + banner_angle_offset, the date inside it
BannerStep ==
    /\ pc = "banner"
    /\ ret' = [ret EXCEPT
                 !.banner = <<ret.banner_start_y,
                              ret.banner_start_y + StandardConfig.banner_height
                                  + StandardConfig.banner_angle_offset>>,
                 !.banner_text_y =
                     ret.banner_start_y
                       + (StandardConfig.banner_height - StandardConfig.banner_font_size) \div 2
                       + StandardConfig.banner_angle_offset \div 2,
                 !.content_start_y = DrawBanner("standard", ret.banner_start_y)]
    /\ pc' = "content"
    /\ UNCHANGED <<call, mergerVars>>

\* self.add_content(card, event, content_start_y)
ContentStep ==
    /\ pc = "content"
    /\ ret' = [ret EXCEPT !.layout = EventContentLayout("standard",
                                         CursorRecord(call.description),
                                         ret.content_start_y, MaxWidth)]
    /\ pc' = "done"
    /\ UNCHANGED <<call, mergerVars>>

NextLayout == LoadImageStep \/ BannerStep \/ ContentStep

SpecLayout == InitLayout /\ [][NextLayout]_vars

----------------------------------------------------------------------------
(* The batch of event cards: main.generate_event_cards *)

MaxCities == 2      \* cities in the list a batch is called with
MaxEvents == 2      \* events in the events file of a city

Cities == {"paris", "nantes"}

\* image_sizes = [(1080, 1350), (1080, 1920)]: the standard composer, then the
\* story composer (height >= 1900)
EventCardPrefixes == <<"standard", "story">>

\* the keys the two composers of event cards look up
EventFields == RequiredFields("standard") \cup RequiredFields("story")

\* the events of a file: one with every key and a loadable image, one without
\* "title", one whose image cannot be fetched
GoodEvent == [record |-> EventFields, image |-> "loadable"]
NoTitleEvent == [record |-> EventFields \ {"title"}, image |-> "loadable"]
NoImageEvent == [record |-> EventFields, image |-> "fetch_failed"]
EventKinds == {GoodEvent, NoTitleEvent, NoImageEvent}

\* f"{prefix}_event_card_{city}_{i}_{width}x{height}.jpg", i counted from 0
EventCardPath(prefix, city, i) == <<prefix, "event_card", city, i - 1>>

\* what a batch has done so far: the files written, the warnings logged, the
\* exception that ended it
NothingDone == [written |-> {}, warnings |-> {}, raised |-> "none"]

\* for i, event in enumerate(events): generator.create_event_card(event, path);
\* the call stands in no try, an exception ends the batch
RECURSIVE ComposeEvents(_, _, _, _, _)
ComposeEvents(prefix, city, events, i, out) ==
    IF out.raised # "none" \/ i > Len(events) THEN out
    ELSE LET result == CreateCard(prefix, events[i].record, events[i].image)
         IN  ComposeEvents(prefix, city, events, i + 1,
                 IF result = "saved"
                 THEN [out EXCEPT !.written = @ \cup {EventCardPath(prefix, city, i)}]
                 ELSE [out EXCEPT !.raised = result])

\* for width, height in image_sizes
RECURSIVE ComposeSizes(_, _, _, _)
ComposeSizes(city, events, k, out) ==
    IF out.raised # "none" \/ k > Len(EventCardPrefixes) THEN out
    ELSE ComposeSizes(city, events, k + 1, ComposeEvents(EventCardPrefixes[k], city, events, 1, out))

\* for city in cities: a city without events file is logged and passed over
RECURSIVE ComposeCities(_, _, _, _)
ComposeCities(cities, files, c, out) ==
    IF out.raised # "none" \/ c > Len(cities) THEN out
    ELSE IF ~files[cities[c]].exists
    THEN ComposeCities(cities, files, c + 1, [out EXCEPT !.warnings = @ \cup {cities[c]}])
    ELSE ComposeCities(cities, files, c + 1, ComposeSizes(cities[c], files[cities[c]].data, 1, out))

GenerateEventCards(cities, files) == ComposeCities(cities, files, 1, NothingDone)

\* the events files INPUT_FOLDER/events_{city}.json
EventsFiles == {MissingFile} \cup {File(events) : events \in Lists(EventKinds, MaxEvents)}

InitEventCards ==
    /\ IdleMerger
    /\ pc = "call"
    /\ call \in [cities : Lists(Cities, MaxCities), files : [Cities -> EventsFiles]]
    /\ ret = NothingDone

\* generate_event_cards(cities) returns
GenerateEventCardsReturns ==
    /\ pc = "call"
    /\ GenerateEventCards(call.cities, call.files).raised = "none"
    /\ ret' = GenerateEventCards(call.cities, call.files)
    /\ pc' = "returned"
    /\ UNCHANGED <<call, mergerVars>>

\* generate_event_cards(cities) ends with the exception of a card
GenerateEventCardsRaises ==
    /\ pc = "call"
    /\ GenerateEventCards(call.cities, call.files).raised # "none"
    /\ ret' = GenerateEventCards(call.cities, call.files)
    /\ pc' = "raised"
    /\ UNCHANGED <<call, mergerVars>>

NextEventCards == GenerateEventCardsReturns \/ GenerateEventCardsRaises

SpecEventCards == InitEventCards /\ [][NextEventCards]_vars

----------------------------------------------------------------------------
(* The run: main.main, from the arguments to the last section.  call holds the
   arguments and the files the run finds; ret holds what the run has done. *)

MaxTokens == 2      \* tokens after --sections

SectionNames ==
    <<"find-common-events", "event-cards", "day-motivation-cards", "week-motivation-cards">>

\* section_mapping of normalize_section_names
section_mapping ==
    [token \in {"1", "2", "3", "4", "find-common-events", "event-cards",
                "day-motivation-cards", "week-motivation-cards"} |->
        CASE token = "1" -> "find-common-events"
          [] token = "2" -> "event-cards"
          [] token = "3" -> "day-motivation-cards"
          [] token = "4" -> "week-motivation-cards"
          [] OTHER -> token]

\* for section in sections: if section in section_mapping: normalized.append(...)
RECURSIVE NormalizeSectionNames(_)
NormalizeSectionNames(sections) ==
    IF sections = <<>> THEN <<>>
    ELSE IF Head(sections) \in DOMAIN section_mapping
    THEN <<section_mapping[Head(sections)]>> \o NormalizeSectionNames(Tail(sections))
    ELSE NormalizeSectionNames(Tail(sections))

\* sections_to_run is None or section_name in sections_to_run
ShouldRunSection(section_name, sections_to_run) ==
    \/ sections_to_run = None
    \/ \E i \in 1..Len(sections_to_run[1]) : sections_to_run[1][i] = section_name

\* the listing is asked for only when no other option is given
ListSections_OnlyAlone(args) == args.list_sections /\ args.sections = <<>> /\ ~args.all

\* if args.list_sections
ListSections(args) == args.list_sections

\* sections_to_run = None; if args.sections: sections_to_run = normalize_section_names(...)
SectionsToRun(args) ==
    IF args.sections # <<>> THEN Some(NormalizeSectionNames(args.sections)) ELSE None

\* the exists() of a file as an image state of the logo
LogoState(exists) == IF exists THEN "loadable" ELSE "missing_file"

DaysOfWeek == 7

\* f"{prefix}_motivation_card_{city}_{width}_{height}_{date}.png"
MotivationCardPath(prefix, city, day) == <<prefix, "motivation_card", city, day>>

EventsPath(city) == <<"events", city>>
NonDetailedPath(city) == <<"events_non_detailed", city>>
DetailedPath(city) == <<"events_detailed", city>>
LogoPath(city) == <<"logo", city>>

\* run_find_common_events(["paris"]): without one of the two inputs the city is
\* logged and passed over; with both, the merge reads them, writes the merged
\* list to events_paris.json and the rest over the non-detailed file
RunFindCommonEvents(city, run, inputs) ==
    IF ~inputs.non_detailed \/ ~inputs.detailed
    THEN [run EXCEPT !.warnings = @ \cup {<<"find-common-events", city>>}]
    ELSE [run EXCEPT !.read = @ \cup {NonDetailedPath(city), DetailedPath(city)},
                     !.written = @ \cup {EventsPath(city), NonDetailedPath(city)},
                     !.events = [@ EXCEPT ![city] = File(inputs.merged)]]

\* generate_event_cards(["paris", "nantes"])
RunEventCards(run) ==
    LET out == GenerateEventCards(<<"paris", "nantes">>, run.events)
    IN  [run EXCEPT !.read = @ \cup {EventsPath(city) : city \in {c \in Cities : run.events[c].exists}},
                    !.written = @ \cup out.written,
                    !.warnings = @ \cup {<<"event-cards", city>> : city \in out.warnings},
                    !.raised = out.raised]

\* the keys of a card_data of main
MotivationFields == RequiredFields("motivation")

\* the 1080x1350 cards of a city: MotivationCardGenerator.create_motivation_card
\* for each card_data; the call stands in no try
RECURSIVE MotivationCards(_, _, _, _, _)
MotivationCards(city, logo, day, days, run) ==
    IF run.raised # "none" \/ day > days THEN run
    ELSE LET result == CreateCard("motivation", MotivationFields, LogoState(logo))
         IN  MotivationCards(city, logo, day + 1, days,
                 IF result = "saved"
                 THEN [run EXCEPT !.read = @ \cup {LogoPath(city)},
                                  !.written = @ \cup {MotivationCardPath("standard", city, day)}]
                 ELSE [run EXCEPT !.raised = result])

\* the 1080x1920 cards of a city, by StoryMotivationCardGenerator, whose module
\* is not in the repository: a card with its logo is written, a card whose logo
\* is missing is logged and passed over
StoryMotivationCards(city, logo, days, run) ==
    IF logo
    THEN [run EXCEPT !.read = @ \cup {LogoPath(city)},
                     !.written = @ \cup {MotivationCardPath("story", city, day) : day \in 1..days}]
    ELSE [run EXCEPT !.warnings = @ \cup {<<"day-motivation-cards", city>>}]

\* generate_day_motivation_cards(["paris"], data_cards, weather_service): the
\* story size, then the standard size
RunDayMotivationCards(city, logo, run) ==
    MotivationCards(city, logo, 1, DaysOfWeek, StoryMotivationCards(city, logo, DaysOfWeek, run))

\* generate_week_motivation_cards(["nantes"], ...): one standard card
RunWeekMotivationCards(city, logo, run) == MotivationCards(city, logo, 1, 1, run)

SectionTokens == {"1", "find-common-events", "2", "3", "week-motivation-cards", "x"}

\* the arguments argparse lets through: --sections with at least one token, or
\* --all, or neither; --list-sections with any of them
Arguments ==
    {args \in [list_sections : BOOLEAN, all : BOOLEAN, sections : Lists(SectionTokens, MaxTokens)] :
        ~(args.all /\ args.sections # <<>>)}

InitMain ==
    /\ IdleMerger
    /\ pc = "main"
    /\ call \in [args : Arguments,
                 non_detailed : BOOLEAN, detailed : BOOLEAN, merged : {<<>>, <<GoodEvent>>},
                 events : [Cities -> {MissingFile, File(<<>>), File(<<GoodEvent>>)}],
                 logo : [Cities -> BOOLEAN]]
    /\ ret = [sections_to_run |-> None, printed |-> FALSE, ran |-> <<>>, events |-> call.events,
              read |-> {}, written |-> {}, warnings |-> {}, raised |-> "none"]

\* main up to the first section: the listing, or the choice of the sections
Main ==
    /\ pc = "main"
    /\ IF ListSections(call.args)
       THEN /\ ret' = [ret EXCEPT !.printed = TRUE]
            /\ pc' = "done"
       ELSE /\ ret' = [ret EXCEPT !.sections_to_run = SectionsToRun(call.args)]
            /\ pc' = "find-common-events"
    /\ UNCHANGED <<call, mergerVars>>

\* if should_run_section(name, sections_to_run): the section; an exception of
\* the section leaves main
Section(name, next, run) ==
    /\ pc = name
    /\ IF ShouldRunSection(name, ret.sections_to_run)
       THEN /\ ret' = [run EXCEPT !.ran = Append(@, name)]
            /\ pc' = IF run.raised = "none" THEN next ELSE "raised"
       ELSE /\ ret' = ret
            /\ pc' = next
    /\ UNCHANGED <<call, mergerVars>>

FindCommonEventsSection ==
    Section("find-common-events", "event-cards", RunFindCommonEvents("paris", ret, call))

EventCardsSection ==
    Section("event-cards", "day-motivation-cards", RunEventCards(ret))

DayMotivationCardsSection ==
    Section("day-motivation-cards", "week-motivation-cards",
            RunDayMotivationCards("paris", call.logo["paris"], ret))

WeekMotivationCardsSection ==
    Section("week-motivation-cards", "done",
            RunWeekMotivationCards("nantes", call.logo["nantes"], ret))

NextMain ==
    \/ Main
    \/ FindCommonEventsSection
    \/ EventCardsSection
    \/ DayMotivationCardsSection
    \/ WeekMotivationCardsSection

SpecMain == InitMain /\ [][NextMain]_vars

----------------------------------------------------------------------------
(* The daily motivation cards: main.generate_day_motivation_cards, one card at
   a time.  call holds the arguments; ret holds data_cards, the position in the
   three loops and the calls of create_motivation_card made so far. *)

MaxDays == 3        \* card_data records in data_cards

\* image_sizes = [(1080, 1920), (1080, 1350)]: story, then standard
DayCardPrefixes == <<"story", "standard">>

\* the card_data main builds for a day: the date label of FR_MONTHS, the names
\* of the day, and the texts and the emoji of WEEKLY_MESSAGES for that day
WeeklyCard(day) ==
    [datetime |-> day,
     date |-> <<day, "FR_MONTHS">>,
     day_name_es |-> <<"ES_DAYS", day>>,
     day_name_fr |-> <<"FR_DAYS", day>>,
     spanish_text |-> <<"WEEKLY_MESSAGES", day>>,
     french_text |-> <<"WEEKLY_MESSAGES", day>>,
     emoji |-> <<"WEEKLY_MESSAGES", day>>,
     weather |-> None]

\* if weather_service: card_data["weather"] = get_weather_for_city(city, datetime)
WithWeather(card_data, city, weather_service) ==
    IF weather_service
    THEN [card_data EXCEPT !.weather = Some(<<"weather", city, card_data.datetime>>)]
    ELSE card_data

\* if height == 1350: the texts name the city and the day, the emoji is the
\* dancer, the date label is that of FR_MONTHS_SHORT
WithCityTexts(card_data, city, prefix) ==
    IF prefix = "standard"
    THEN [card_data EXCEPT
             !.spanish_text = <<"Que hacer en", city, "este", card_data.day_name_es>>,
             !.french_text = <<"Quoi faire a", city, "ce", card_data.day_name_fr>>,
             !.emoji = <<"dancer">>,
             !.date = <<"FR_MONTHS_SHORT", card_data.datetime>>]
    ELSE card_data

\* the body of the inner loop up to the call of the composer
PrepareCard(card_data, city, prefix, weather_service) ==
    WithCityTexts(WithWeather(card_data, city, weather_service), city, prefix)

\* the position after (c, z, d) in: for city / for size / for card_data
NextPosition(c, z, d, days) ==
    IF d < days THEN [c |-> c, z |-> z, d |-> d + 1]
    ELSE IF z < Len(DayCardPrefixes) THEN [c |-> c, z |-> z + 1, d |-> 1]
    ELSE [c |-> c + 1, z |-> 1, d |-> 1]

InitDayCards ==
    /\ IdleMerger
    /\ pc = "cards"
    /\ call \in [cities : Lists(Cities, MaxCities), days : 1..MaxDays, weather_service : BOOLEAN]
    /\ ret = [data_cards |-> [day \in 1..call.days |-> WeeklyCard(day)],
              at |-> [c |-> 1, z |-> 1, d |-> 1],
              composed |-> <<>>]

\* one turn of the inner loop: card_data is the dict of data_cards itself, so
\* what is assigned to it stays in data_cards; then
\* generator.create_motivation_card(card_data, output_path, logo)
ComposeDayCard ==
    /\ pc = "cards"
    /\ ret.at.c <= Len(call.cities)
    /\ LET city == call.cities[ret.at.c]
           prefix == DayCardPrefixes[ret.at.z]
           day == ret.at.d
           card_data == PrepareCard(ret.data_cards[day], city, prefix, call.weather_service)
       IN  ret' = [data_cards |-> [ret.data_cards EXCEPT ![day] = card_data],
                   at |-> NextPosition(ret.at.c, ret.at.z, day, call.days),
                   composed |-> Append(ret.composed,
                                       [city |-> city, prefix |-> prefix, day |-> day,
                                        card_data |-> card_data,
                                        output_path |-> <<prefix, "motivation_card", city, card_data.date>>])]
    /\ pc' = pc
    /\ UNCHANGED <<call, mergerVars>>

\* the loops are over
FinishDayCards ==
    /\ pc = "cards"
    /\ ret.at.c > Len(call.cities)
    /\ pc' = "done"
    /\ UNCHANGED <<call, ret, mergerVars>>

NextDayCards == ComposeDayCard \/ FinishDayCards

SpecDayCards == InitDayCards /\ [][NextDayCards]_vars

----------------------------------------------------------------------------
(* The week of the daily cards: main.get_next_monday and the list data_cards
   that main builds from it.  A datetime is the ordinal of its day (day 1 is
   Monday, January 1 of year 1) and its time of day in seconds.  call holds
   CALCULATION_DATE; ret holds the two dates returned and the cards built. *)

MaxDate == 15       \* the latest day a run is started on

TimesOfDay == {0, 86399}

DateTimes == [day : 1..MaxDate, time : TimesOfDay]

\* datetime.weekday(): Monday is 0
Weekday(date) == (date.day + 6) % 7

\* date + timedelta(days=n)
PlusDays(date, n) == [date EXCEPT !.day = @ + n]

\* the variant that always looks for a Monday after the start date
GetNextMonday_AlwaysNext(start_date) ==
    LET next_monday == PlusDays(start_date, 7 - Weekday(start_date))
    IN <<next_monday, PlusDays(next_monday, 6)>>

GetNextMonday(start_date) ==
    LET days_until_monday ==
            IF (7 - Weekday(start_date)) % 7 = 0 THEN 7 ELSE (7 - Weekday(start_date)) % 7
        next_monday ==
            IF Weekday(start_date) = 0 THEN start_date
            ELSE PlusDays(start_date, days_until_monday)
    IN <<next_monday, PlusDays(next_monday, 6)>>

\* single_date.strftime("%A"): the English name of the day
StrftimeA(date) == EN_DAYS[Weekday(date) + 1]

\* FR_DAYS[name] and ES_DAYS[name]: the tables are keyed by the English names
DayNameOf(table, name) == table[CHOOSE i \in 1..7 : EN_DAYS[i] = name]

\* one element of data_cards
DataCard(single_date) ==
    [datetime |-> single_date,
     day_name_es |-> DayNameOf(ES_DAYS, StrftimeA(single_date)),
     day_name_fr |-> DayNameOf(FR_DAYS, StrftimeA(single_date))]

InitWeek ==
    /\ IdleMerger
    /\ pc = "call"
    /\ call \in [start_date : DateTimes]
    /\ ret = [next_monday |-> call.start_date, next_sunday |-> call.start_date,
              data_cards |-> <<>>]

\* next_monday, _ = get_next_monday(CALCULATION_DATE)
GetNextMondayCall ==
    /\ pc = "call"
    /\ ret' = [ret EXCEPT !.next_monday = GetNextMonday(call.start_date)[1],
                          !.next_sunday = GetNextMonday(call.start_date)[2]]
    /\ pc' = "cards"
    /\ UNCHANGED <<call, mergerVars>>

\* for single_date in (next_monday + timedelta(n) for n in range(7)): the next card
BuildDataCard ==
    /\ pc = "cards"
    /\ LET n == Len(ret.data_cards)
       IN /\ ret' = [ret EXCEPT !.data_cards =
                         Append(@, DataCard(PlusDays(ret.next_monday, n)))]
          /\ pc' = IF n + 1 = DaysOfWeek THEN "done" ELSE "cards"
    /\ UNCHANGED <<call, mergerVars>>

NextWeek == GetNextMondayCall \/ BuildDataCard

SpecWeek == InitWeek /\ [][NextWeek]_vars

----------------------------------------------------------------------------
(* Properties of the merge run *)

RawLink(event) == Get(event, "link", <<>>)

HasValidLink(event) == Strip(RawLink(event)) # <<>> /\ Strip(RawLink(event)) # NotFound

Indices(s) == 1..Len(s)

\* C1 as stated: when every non-detailed record has a valid link and no two
\* records have the same link value, a run returns a merged and a residual list
\* whose lengths add up to the length of the non-detailed input.
C1_PartitionDistinctLinks ==
    (/\ runs > 0
     /\ \A i \in Indices(events_non_detailed) : HasValidLink(events_non_detailed[i])
     /\ \A i, j \in Indices(events_non_detailed) :
            RawLink(events_non_detailed[i]) = RawLink(events_non_detailed[j]) => i = j)
    => Len(common_events) + Len(non_common_events) = Len(events_non_detailed)

\* C1 amended: when every non-detailed record has a valid link and no two
\* records have the same link after stripping, the lengths of the merged and of
\* the residual list add up to the length of the non-detailed input.
C1_PartitionDistinctKeys ==
    (/\ runs > 0
     /\ \A i \in Indices(events_non_detailed) : HasValidLink(events_non_detailed[i])
     /\ \A i, j \in Indices(events_non_detailed) :
            Strip(RawLink(events_non_detailed[i])) = Strip(RawLink(events_non_detailed[j]))
                => i = j)
    => Len(common_events) + Len(non_common_events) = Len(events_non_detailed)

\* a run that merged one record and kept another, both with valid, distinct links,
\* one of them written with surrounding whitespace
C1_Witness ==
    /\ runs > 0
    /\ Len(events_non_detailed) = 2
    /\ \A i \in Indices(events_non_detailed) : HasValidLink(events_non_detailed[i])
    /\ Strip(RawLink(events_non_detailed[1])) # Strip(RawLink(events_non_detailed[2]))
    /\ \E i \in Indices(events_non_detailed) :
          RawLink(events_non_detailed[i]) # Strip(RawLink(events_non_detailed[i]))
    /\ Len(common_events) = 1
    /\ Len(non_common_events) = 1

\* C2: a run that reads the residual file written by the run before it, with the
\* same detailed file, merges nothing: no link of the residual file is a key of
\* the detailed link map.
C2_RerunMergesNothing ==
    inputWasResidual =>
        /\ common_events = <<>>
        /\ \A i \in Indices(events_non_detailed) :
              Strip(RawLink(events_non_detailed[i])) \notin DOMAIN detailed_link_map

\* a second run over a residual file that still has records, after a first run
\* whose merged records are still in the output file
C2_Witness ==
    /\ inputWasResidual
    /\ events_non_detailed # <<>>
    /\ DOMAIN detailed_link_map # {}
    /\ outputFile.exists /\ outputFile.data # <<>>

\* the stripped links of a list that are neither empty nor the sentinel
ValidLinks(events) ==
    {k \in {Strip(RawLink(events[i])) : i \in Indices(events)} : k # <<>> /\ k # NotFound}

IsLinkMapOf(map, events) ==
    /\ DOMAIN map = ValidLinks(events)
    /\ \A k \in DOMAIN map :
          \E i \in Indices(events) :
              /\ Strip(RawLink(events[i])) = k
              /\ map[k] = events[i]
              /\ \A j \in Indices(events) : j > i => Strip(RawLink(events[j])) # k

\* C4: the keys of a link map are exactly the stripped links of the list that
\* are neither empty nor "not found", and each key maps to the last record of
\* the list with that link.
C4_LinkMapLastWins ==
    /\ IsLinkMapOf(non_detailed_link_map, events_non_detailed)
    /\ IsLinkMapOf(detailed_link_map, events_detailed)

\* a list with two different records of one link, mapped to the later one, and
\* a list whose only record has the sentinel link and gives no key
C4_Witness ==
    /\ \E i, j \in Indices(events_non_detailed) :
          /\ i < j
          /\ Strip(RawLink(events_non_detailed[i])) = Strip(RawLink(events_non_detailed[j]))
          /\ events_non_detailed[i] # events_non_detailed[j]
          /\ Strip(RawLink(events_non_detailed[i])) \in DOMAIN non_detailed_link_map
          /\ non_detailed_link_map[Strip(RawLink(events_non_detailed[j]))]
                = events_non_detailed[j]
    /\ Len(events_detailed) = 1
    /\ ~HasValidLink(events_detailed[1])
    /\ DOMAIN detailed_link_map = {}

\* res is src restricted to the positions in keep, in the order of src
IsSubsequenceAt(res, src, keep) ==
    /\ Len(res) = Cardinality(keep)
    /\ \E f \in [Indices(res) -> keep] :
          /\ \A i, j \in Indices(res) : i < j => f[i] < f[j]
          /\ \A i \in Indices(res) : res[i] = src[f[i]]

\* C5 as stated: the residual list is the subsequence of the non-detailed list
\* made of the records whose link value is not in the common set.
C5_ResidualByLinkValue ==
    runs > 0 =>
        IsSubsequenceAt(non_common_events, events_non_detailed,
                        {i \in Indices(events_non_detailed) :
                            RawLink(events_non_detailed[i]) \notin common_links})

\* C5 amended: the residual list is the subsequence of the non-detailed list, in
\* the original order and with every record unchanged, made of the records whose
\* stripped link is not in the common set; every record with a missing, empty
\* or "not found" link is in it and no record whose stripped link is common is.
C5_ResidualByStrippedLink ==
    runs > 0 =>
        /\ IsSubsequenceAt(non_common_events, events_non_detailed,
                           {i \in Indices(events_non_detailed) :
                               Strip(RawLink(events_non_detailed[i])) \notin common_links})
        /\ \A i \in Indices(events_non_detailed) :
              ~HasValidLink(events_non_detailed[i])
                  => \E j \in Indices(non_common_events) :
                        non_common_events[j] = events_non_detailed[i]
        /\ \A j \in Indices(non_common_events) :
              Strip(RawLink(non_common_events[j])) \notin common_links

\* a run that left a record with a common link out of the residual list and
\* kept a record without a valid link
C5_Witness ==
    /\ Len(events_non_detailed) >= 2
    /\ common_links # {}
    /\ Len(non_common_events) >= 1
    /\ Len(non_common_events) < Len(events_non_detailed)
    /\ \E j \in Indices(non_common_events) : ~HasValidLink(non_common_events[j])

----------------------------------------------------------------------------
(* Properties of merge_single_event and sort_events_by_date *)

\* the field is in the merged record with this value
HasValue(event, field, value) == field \in DOMAIN event /\ event[field] = value

\* the field of the merged record is as it was in the non-detailed record
KeepsField(merged, non_detailed, field) ==
    IF field \in DOMAIN non_detailed
    THEN HasValue(merged, field, non_detailed[field])
    ELSE field \notin DOMAIN merged

\* C3 as stated: each of the six fields of the merged record is the detailed
\* record's value when that value is non-empty and not "not found", and is
\* otherwise as in the non-detailed record.
C3_OverwriteByValue ==
    pc = "returned" =>
        \A i \in Indices(fields_to_overwrite) :
            LET field == fields_to_overwrite[i]
                value == Get(call.detailed_event, field, <<>>)
            IN IF value # <<>> /\ value # NotFound
               THEN HasValue(ret, field, value)
               ELSE KeepsField(ret, call.non_detailed_event, field)

\* C3 amended: each of the six fields of the merged record is the detailed
\* record's value stripped of surrounding whitespace when that stripped value is
\* non-empty and not "not found", and is otherwise as in the non-detailed record
\* (absent if it was absent there).
C3_OverwriteByStrippedValue ==
    pc = "returned" =>
        \A i \in Indices(fields_to_overwrite) :
            LET field == fields_to_overwrite[i]
                value == Strip(Get(call.detailed_event, field, <<>>))
            IN IF value # <<>> /\ value # NotFound
               THEN HasValue(ret, field, value)
               ELSE KeepsField(ret, call.non_detailed_event, field)

\* a merge that took a title written with whitespace, kept the cost against a
\* "not found" and added no type
C3_Witness ==
    /\ pc = "returned"
    /\ HasValue(call.non_detailed_event, "title", A)
    /\ HasValue(call.detailed_event, "title", <<" ", "B", " ">>)
    /\ HasValue(ret, "title", B)
    /\ HasValue(call.detailed_event, "cost", NotFound)
    /\ HasValue(ret, "cost", A)
    /\ "type" \notin DOMAIN call.non_detailed_event
    /\ "type" \notin DOMAIN call.detailed_event
    /\ "type" \notin DOMAIN ret

\* every pair of start_dt values of the list can be compared
MutuallyComparable(events) ==
    \A i, j \in Indices(events) :
        i # j => Comparable(SortKey(events[i]), SortKey(events[j]))

\* out is events in non-decreasing start_dt order, equal keys in the order of events
IsStableSortOf(out, events) ==
    /\ Len(out) = Len(events)
    /\ \E f \in [Indices(events) -> Indices(events)] :
          /\ \A i, j \in Indices(events) : f[i] = f[j] => i = j
          /\ \A i \in Indices(events) : out[i] = events[f[i]]
          /\ \A i, j \in Indices(events) :
                i < j => \/ SortKey(out[i]).v < SortKey(out[j]).v
                         \/ SortKey(out[i]).v = SortKey(out[j]).v /\ f[i] < f[j]

\* C6: sort_events_by_date does not raise; when the start_dt values (a missing
\* one counting as "") are mutually comparable it returns the records in
\* non-decreasing start_dt order with ties in input order, and otherwise it
\* returns the input in its original order.
C6_SortNeverRaises ==
    pc = "returned" =>
        /\ ~ret.raised
        /\ IF MutuallyComparable(call.events)
           THEN IsStableSortOf(ret.value, call.events)
           ELSE ret.value = call.events

\* a sort that moved a record in front of two records with equal start_dt
C6_Witness ==
    /\ pc = "returned"
    /\ Len(call.events) = 3
    /\ MutuallyComparable(call.events)
    /\ ret.value # call.events
    /\ \E i \in 1..2 : /\ SortKey(ret.value[i]) = SortKey(ret.value[i + 1])
                        /\ ret.value[i] # ret.value[i + 1]
    /\ \E i \in Indices(call.events) : "start_dt" \notin DOMAIN call.events[i]

----------------------------------------------------------------------------
(* Properties of the word wrap *)

Capped == {"standard", "story", "legacy"}

Cap(variant) ==
    CASE variant = "standard" -> StandardMaxLines
      [] variant = "story" -> StoryMaxLines
      [] variant = "legacy" -> LegacyMaxLines

\* the wrap of the variant before the cap is applied
Uncapped(variant, text, max_width) ==
    IF variant = "legacy" THEN WrapWords(Split(text), <<>>, <<>>, max_width)
    ELSE IF HasNewline(text) THEN WrapTextWithNewlines(text, max_width)
    ELSE WrapParagraph(text, max_width)

\* C7: wrap_text returns at most N lines, N being the line cap of the composer (4
\* on the standard card, 20 on the story card, 3 in the legacy module), and they
\* are the first N lines of the uncapped wrap, with nothing appended.
C7_LineCap ==
    (pc # "call" /\ call.variant \in Capped) =>
        LET all == Uncapped(call.variant, call.text, call.max_width)
            n == Cap(call.variant)
        IN /\ Len(ret.lines) <= n
           /\ Len(ret.lines) = (IF Len(all) < n THEN Len(all) ELSE n)
           /\ \A i \in Indices(ret.lines) : ret.lines[i] = all[i]

\* a story card text of more than 20 lines, cut to 20
C7_Witness ==
    /\ pc = "wrapped"
    /\ call.variant = "story"
    /\ Len(Uncapped(call.variant, call.text, call.max_width)) > StoryMaxLines
    /\ Len(ret.lines) = StoryMaxLines

IsSingleWord(line) == Split(line) = <<line>>

\* the wrap returned every line it built
NotTruncated == call.variant \notin Capped \/ Len(ret.lines) < Cap(call.variant)

\* C8: every returned line is at most max_width wide, except a line made of a
\* single word that alone is wider than max_width; such a word is kept whole on
\* a line of its own.
C8_WidthBound ==
    pc # "call" =>
        /\ \A i \in Indices(ret.lines) :
              \/ TextWidth(ret.lines[i]) <= call.max_width
              \/ IsSingleWord(ret.lines[i])
        /\ NotTruncated =>
              \A k \in Indices(Split(call.text)) :
                  TextWidth(Split(call.text)[k]) > call.max_width
                      => \E i \in Indices(ret.lines) : ret.lines[i] = Split(call.text)[k]

\* a wrap with a line of one overlong word and a line of two words
C8_Witness ==
    /\ pc = "wrapped"
    /\ \E i \in Indices(ret.lines) :
          TextWidth(ret.lines[i]) > call.max_width /\ IsSingleWord(ret.lines[i])
    /\ \E i \in Indices(ret.lines) :
          Len(Split(ret.lines[i])) = 2 /\ TextWidth(ret.lines[i]) <= call.max_width

\* C9: the lines returned by wrap_text, joined by newlines and wrapped again at
\* the same width and with the same cap, are returned unchanged.
C9_WrapIdempotent ==
    (pc = "rewrapped" /\ call.variant \in {"standard", "story"}) =>
        ret.rewrapped = ret.lines

\* a standard card text with a blank paragraph, cut to four lines, wrapped again
C9_Witness ==
    /\ pc = "rewrapped"
    /\ call.variant = "standard"
    /\ Len(Uncapped(call.variant, call.text, call.max_width)) > StandardMaxLines
    /\ Len(ret.lines) = StandardMaxLines
    /\ \E i \in Indices(ret.lines) : ret.lines[i] = <<>>
    /\ \E i \in Indices(ret.lines) : Len(Split(ret.lines[i])) = 2

----------------------------------------------------------------------------
(* Properties of the banner colour *)

\* the names of the days in the three locales, as main.py has them and as
\* get_color looks for them
WeekdayNames ==
    {FR_DAYS[i] : i \in 1..7} \cup {ES_DAYS[i] : i \in 1..7} \cup {EN_DAYS[i] : i \in 1..7}
    \cup UNION {{DayTokens[i][j] : j \in 1..Len(DayTokens[i])} : i \in 1..Len(DayTokens)}

\* the string has the name of a day in it, in any letter case
NamesAWeekday(date) == \E name \in WeekdayNames : Contains(Upper(name), Upper(date))

ColorTable == {DayColors[i] : i \in 1..Len(DayColors)} \cup {DefaultColor}

\* C10: get_color returns, for every string, one RGB triple of its table, and
\* for a string that names no weekday in any of the three locales the default
\* colour (255, 152, 0).
C10_ColorTotal ==
    pc = "returned" =>
        /\ ret \in ColorTable
        /\ ~NamesAWeekday(call.date) => ret = <<255, 152, 0>>

\* the colour of a date string that is not empty and names no weekday
C10_Witness ==
    /\ pc = "returned"
    /\ Len(call.date) > 3
    /\ ~NamesAWeekday(call.date)
    /\ ret = <<255, 152, 0>>

\* the names of day i: French, Spanish and English as main.py writes them, and
\* as get_color looks for them
NamesOfDay(i) ==
    {FR_DAYS[i], ES_DAYS[i], EN_DAYS[i]} \cup {DayTokens[i][j] : j \in 1..Len(DayTokens[i])}

\* the string has a name of day i in it, in any letter case
NamesDay(i, date) ==
    \E name \in NamesOfDay(i) : Contains(Upper(name), Upper(date))

\* day i is the only day the string names
NamesOnlyDay(i, date) ==
    /\ NamesDay(i, date)
    /\ \A j \in 1..7 : j # i => ~NamesDay(j, date)

\* C11: a date string that has the French, the Spanish or the English name of
\* a weekday in it, in any letter case, gets from get_color the same colour as
\* each of the three names of that weekday, the Spanish names of ES_DAYS
\* ("Miércoles", "Sábado") included.
C11_LocaleEquivalence ==
    pc = "returned" =>
        \A i \in 1..7 :
            NamesOnlyDay(i, call.date) =>
                /\ ret = GetColor(FR_DAYS[i])
                /\ ret = GetColor(ES_DAYS[i])
                /\ ret = GetColor(EN_DAYS[i])

\* C12: for a date string that has the names of several weekdays in it,
\* get_color returns the colour of the one that comes first from Monday to
\* Sunday, wherever the names stand in the string.
C12_FirstWeekdayWins ==
    pc = "returned" =>
        \A i \in 1..7 :
            ( /\ NamesDay(i, call.date)
              /\ \A j \in 1..(i - 1) : ~NamesDay(j, call.date)
              /\ \E k \in (i + 1)..7 : NamesDay(k, call.date) )
            => ret = DayColors[i]

----------------------------------------------------------------------------
(* Properties of the drawing cursor *)

\* C13: every drawing operation that takes a y position and returns a cursor
\* (draw_banner, add_event_info with and without split_text, split_text,
\* add_separator_line, draw_rounded_rectangle_banner, add_content) returns a y
\* strictly greater than the y it was given, for every text, the empty text
\* included, and every spacing argument, 0 included, in every composer.
C13_CursorMonotone ==
    pc = "returned" => ret > call.y

----------------------------------------------------------------------------
(* Properties of composing one card *)

CompleteRecord == call.record = RequiredFields(call.composer)

\* the card after every statement before the save
FinishedCard(composer) == SubSeq(Steps(composer), 1, Len(Steps(composer)) - 1)

\* C14: in every composer (standard event card, story event card, motivation
\* card) a call with a record that has every key and an image or logo that can
\* be loaded runs all its statements to the end and writes exactly one image
\* file, the finished card, at the output path.
C14_ComposeCompletes ==
    (pc = "compose" /\ CompleteRecord /\ call.image = "loadable")
        ~> (pc = "done" /\ ret.writes = 1 /\ ret.file = File(FinishedCard(call.composer)))

\* the call cannot go on although it has neither returned nor raised
Stuck == pc = "compose" /\ ~ENABLED NextCompose

\* C15: in every composer the file at the output path is written only by the
\* last statement; when the image cannot be fetched or decoded, or a key of the
\* record is missing, the call raises, and the file at the output path is
\* neither created nor changed.
C15_NoPartialOutput ==
    /\ pc # "done" => (ret.file = call.output /\ ret.writes = 0)
    /\ (~CompleteRecord \/ call.image # "loadable") =>
           /\ pc # "done"
           /\ ~Stuck
           /\ ret.file = call.output

\* a standard card whose record lacks "location": the image is pasted, banner
\* and banner text are drawn, add_content raises KeyError, and the file that was
\* at the output path is as it was
C15_Witness ==
    /\ pc = "raised"
    /\ call.composer = "standard"
    /\ call.record = RequiredFields("standard") \ {"location"}
    /\ call.image = "loadable"
    /\ ret.raised = "KeyError"
    /\ Len(ret.card) = 4
    /\ call.output = File(OldImage)
    /\ ret.file = File(OldImage)

----------------------------------------------------------------------------
(* Properties of the batch of event cards *)

\* C16: in generate_event_cards a card whose composition raises (image fetch
\* failure, missing key) is caught and passed over: the batch returns, and the
\* card of every other event, in every size and of every city with an events
\* file, is written.
C16_FailureIsolation ==
    pc \in {"returned", "raised"} =>
        /\ pc = "returned"
        /\ \A c \in 1..Len(call.cities) :
               LET city == call.cities[c]
                   events == call.files[city].data
               IN  call.files[city].exists =>
                       \A k \in 1..Len(EventCardPrefixes), i \in 1..Len(events) :
                           CreateCard(EventCardPrefixes[k], events[i].record, events[i].image) = "saved"
                               => EventCardPath(EventCardPrefixes[k], city, i) \in ret.written

----------------------------------------------------------------------------
(* Properties of the run *)

Ended == pc \in {"done", "raised"}

\* the paths written for a city by the card sections
CardsOf(kind, city) == {path \in ret.written : path[2] = kind /\ path[3] = city}

\* C17: a missing input file never ends the run: a missing events file of a
\* city, a missing input of the merge or a missing logo of a motivation card is
\* logged and passed over without an exception, and nothing is written for it.
C17_MissingFileSkipped ==
    /\ ret.raised # "FileNotFoundError"
    /\ \A city \in Cities :
           /\ ~ret.events[city].exists => CardsOf("event_card", city) = {}
           /\ ~call.logo[city] => CardsOf("motivation_card", city) = {}
    /\ (~call.non_detailed \/ ~call.detailed) => EventsPath("paris") \notin ret.written

\* the number of a section
Ordinal(i) == CASE i = 1 -> "1" [] i = 2 -> "2" [] i = 3 -> "3" [] i = 4 -> "4"

\* the section is named, or numbered, among the tokens
Occurs(i, tokens) ==
    \E j \in 1..Len(tokens) : tokens[j] = SectionNames[i] \/ tokens[j] = Ordinal(i)

\* the sections from the i-th on that the arguments select, in the fixed order
RECURSIVE SelectedFrom(_, _)
SelectedFrom(i, args) ==
    IF i > Len(SectionNames) THEN <<>>
    ELSE IF args.sections = <<>> \/ Occurs(i, args.sections)
    THEN <<SectionNames[i]>> \o SelectedFrom(i + 1, args)
    ELSE SelectedFrom(i + 1, args)

\* C18: without --sections main runs the four sections; with --sections it runs
\* the sections whose name or number is among the tokens, each once, in the
\* order find-common-events, event-cards, day-motivation-cards,
\* week-motivation-cards, whatever the order and the repetitions of the tokens;
\* a token that is no name and no number selects nothing.
C18_SectionSelection ==
    (Ended /\ ~call.args.list_sections) => ret.ran = SelectedFrom(1, call.args)

\* C19: with --list-sections main prints the names of the sections and returns:
\* no section is run and no file is read or written, also with --sections or
\* --all.
C19_ListingMode ==
    (call.args.list_sections /\ pc # "main") =>
        /\ pc = "done"
        /\ ret.printed
        /\ ret.ran = <<>>
        /\ ret.read = {} /\ ret.written = {}
        /\ ret.events = call.events

\* --list-sections together with --sections 1 x, with every input file there
C19_Witness ==
    /\ pc = "done"
    /\ call.args.list_sections
    /\ call.args.sections = <<"1", "x">>
    /\ call.non_detailed /\ call.detailed
    /\ ret.printed
    /\ ret.ran = <<>>
    /\ ret.written = {}

----------------------------------------------------------------------------
(* Properties of the daily motivation cards *)

\* C20: in generate_day_motivation_cards, for any list of cities and both
\* sizes, the texts, the date label and the emoji of a card depend only on the
\* city, the size and the date of that card: every card is composed with the
\* data it gets when no card was composed before it.
C20_NoStateBetweenCards ==
    \A k \in 1..Len(ret.composed) :
        LET card == ret.composed[k]
            own == PrepareCard(WeeklyCard(card.day), card.city, card.prefix, call.weather_service)
        IN  /\ card.card_data.spanish_text = own.spanish_text
            /\ card.card_data.french_text = own.french_text
            /\ card.card_data.date = own.date
            /\ card.card_data.emoji = own.emoji

----------------------------------------------------------------------------
(* Properties of the merge frame *)

\* the fields of the three records that are not among the six overwritten ones
FrameFields ==
    (DOMAIN ret.heap[ret.value] \cup DOMAIN call.non_detailed_event
        \cup DOMAIN call.detailed_event)
      \ {fields_to_overwrite[i] : i \in Indices(fields_to_overwrite)}

\* C21: merge_single_event leaves both input records as they were, and every
\* field of the merged record other than the six overwritten ones has exactly
\* the non-detailed record's value (it is absent when it was absent there): no
\* field of the detailed record outside the six is copied.
C21_MergeFrame ==
    pc = "returned" =>
        /\ ret.heap["non_detailed_event"] = call.non_detailed_event
        /\ ret.heap["detailed_event"] = call.detailed_event
        /\ \A field \in FrameFields :
              KeepsField(ret.heap[ret.value], call.non_detailed_event, field)

\* a merge that overwrote the title and added the cost, of two records that
\* differ in the link as written, the image, the date and the start_dt, the
\* detailed one having a field unknown to the other
C21_Witness ==
    /\ pc = "returned"
    /\ HasValue(call.non_detailed_event, "title", A)
    /\ HasValue(ret.heap[ret.value], "title", B)
    /\ HasValue(ret.heap[ret.value], "cost", B)
    /\ HasValue(call.detailed_event, "link", <<"L", " ">>)
    /\ HasValue(ret.heap[ret.value], "link", L)
    /\ HasValue(call.detailed_event, "date", B)
    /\ "date" \notin DOMAIN call.non_detailed_event
    /\ "date" \notin DOMAIN ret.heap[ret.value]
    /\ "start_dt" \in DOMAIN call.non_detailed_event
    /\ "start_dt" \in DOMAIN call.detailed_event
    /\ ret.heap[ret.value]["start_dt"] = call.non_detailed_event["start_dt"]
    /\ "organizer" \in DOMAIN call.detailed_event
    /\ "organizer" \notin DOMAIN ret.heap[ret.value]

----------------------------------------------------------------------------
(* Properties of split_text *)

\* line i (from 0) is drawn at y + i * line_spacing
DrawnAtLineSpacing ==
    \A i \in Indices(ret.draws) :
        ret.draws[i].y = call.y + (i - 1) * line_spacing(call.composer)

\* the spacing in force: the argument, or the composer's section spacing when
\* the argument is missing or 0
SpacingInForce ==
    IF call.section_spacing \in {None, Some(0)} THEN section_spacing
    ELSE call.section_spacing[1]

\* C22 as stated: split_text draws line i at y + i * line_spacing and returns y
\* advanced by exactly the number of drawn lines times line_spacing.
C22_AdvanceByLines ==
    pc = "returned" =>
        /\ DrawnAtLineSpacing
        /\ ret.cursor = call.y + Len(ret.draws) * line_spacing(call.composer)

\* C22 amended: split_text draws line i at y + i * line_spacing and returns y
\* advanced by the number of drawn lines times line_spacing plus half the
\* spacing in force, rounded down.
C22_AdvanceByLinesAndHalfSpacing ==
    pc = "returned" =>
        /\ DrawnAtLineSpacing
        /\ 2 * (ret.cursor - call.y - Len(ret.draws) * line_spacing(call.composer))
              \in {SpacingInForce, SpacingInForce - 1}

\* a text drawn on three lines 40 apart, with a spacing argument of 50: the
\* cursor comes back 3 * 40 + 25 further down
C22_Witness ==
    /\ pc = "returned"
    /\ call.composer = "standard"
    /\ call.section_spacing = Some(50)
    /\ Len(ret.draws) = 3
    /\ ret.draws[3].y = call.y + 80
    /\ ret.cursor = call.y + 145

----------------------------------------------------------------------------
(* Properties of the gradient colours *)

\* the first day, from Monday (1) to Sunday (7), one of whose names as the
\* composers look for them is in the upper-cased string; 0 when there is none
FirstDayNamed(date) ==
    IF \E i \in 1..7 : AnyIn(DayTokens[i], Upper(date))
    THEN CHOOSE i \in 1..7 :
            /\ AnyIn(DayTokens[i], Upper(date))
            /\ \A j \in 1..(i - 1) : ~AnyIn(DayTokens[j], Upper(date))
    ELSE 0

----------------------------------------------------------------------------
(* Properties of one composer instance *)

\* C24: composing a card changes no configuration value of the composer
\* instance: during and after any sequence of compose calls its configuration
\* (canvas size, margins, font sizes, banner geometry, max_crop_height,
\* max_description_lines) is the one its constructor set.
C24_ConfigUnchanged ==
    /\ ret.config = Config(call.composer, call.height)
    /\ ret.config.max_crop_height = 675
    /\ ret.config.card_height = call.height

\* a story composer of 1080x1920 after two calls, the second one ended by the
\* AttributeError of add_event_content, with max_crop_height as constructed
C24_Witness ==
    /\ pc = "idle"
    /\ ret.calls = 2
    /\ call.composer = "story"
    /\ call.height = 1920
    /\ ret.raised = "AttributeError"
    /\ ret.config.max_crop_height = 675

----------------------------------------------------------------------------
(* Properties of the merge run when a file cannot be written or read *)

\* the record is one of the records of the file
StoredIn(file, event) ==
    file.exists /\ \E j \in Indices(file.data) : file.data[j] = event

\* no other record of the non-detailed input has the same link after stripping
HasUniqueLink(i) ==
    \A j \in Indices(events_non_detailed) :
        Strip(RawLink(events_non_detailed[j])) = Strip(RawLink(events_non_detailed[i]))
            => j = i

\* C25: after a run, every record of the non-detailed input with a valid link
\* that no other record has is stored either merged in the output file or
\* unchanged in the non-detailed file, also when writing one of the two files
\* failed.
C25_NoRecordLost ==
    runs > 0 =>
        \A i \in Indices(events_non_detailed) :
            LET event == events_non_detailed[i]
                link == Strip(RawLink(event))
            IN (HasValidLink(event) /\ HasUniqueLink(i)) =>
                  \/ StoredIn(nonDetailedFile, event)
                  \/ /\ link \in DOMAIN detailed_link_map
                     /\ StoredIn(outputFile, MergeSingleEvent(event, detailed_link_map[link]))

\* the step is a run of find_and_merge_common_events
IsMergeRun == runs' = runs + 1 /\ nonDetailedFile.exists /\ detailedFile.exists

\* the file holds the records of the list, each as often as the list, in any order
HoldsAllOf(file, events) ==
    /\ file.exists /\ file.readable
    /\ Len(file.data) = Len(events)
    /\ \E f \in [Indices(events) -> Indices(events)] :
          /\ \A i, j \in Indices(events) : f[i] = f[j] => i = j
          /\ \A i \in Indices(events) : file.data[i] = events[f[i]]

\* C26 as stated: a run over an input file that exists but cannot be read or
\* parsed writes both files: with an unreadable non-detailed file both the
\* output file and the non-detailed file are overwritten with an empty list;
\* with an unreadable detailed file the output file is overwritten with an empty
\* list and the non-detailed file is rewritten with all its records.
C26_UnreadableInputWritesBoth ==
    [][ /\ (IsMergeRun /\ ~nonDetailedFile.readable) =>
              /\ outputFile' = File(<<>>)
              /\ nonDetailedFile' = File(<<>>)
        /\ (IsMergeRun /\ nonDetailedFile.readable /\ ~detailedFile.readable) =>
              /\ outputFile' = File(<<>>)
              /\ HoldsAllOf(nonDetailedFile', nonDetailedFile.data) ]_vars

\* C26 amended: a run over an input file that exists but cannot be read or
\* parsed goes on with an empty list and writes each of the two files that can
\* be written: with an unreadable non-detailed file an empty list to both; with
\* an unreadable detailed file an empty list to the output file and all its
\* records to the non-detailed file.  A file that cannot be opened for writing
\* is as it was.
C26_UnreadableInputWritesWhatItCan ==
    [][ /\ (IsMergeRun /\ ~nonDetailedFile.readable) =>
              /\ outputFile' = IF ret'.output_saved THEN File(<<>>) ELSE outputFile
              /\ nonDetailedFile' =
                    IF ret'.non_detailed_saved THEN File(<<>>) ELSE nonDetailedFile
        /\ (IsMergeRun /\ nonDetailedFile.readable /\ ~detailedFile.readable) =>
              /\ outputFile' = IF ret'.output_saved THEN File(<<>>) ELSE outputFile
              /\ IF ret'.non_detailed_saved
                 THEN HoldsAllOf(nonDetailedFile', nonDetailedFile.data)
                 ELSE nonDetailedFile' = nonDetailedFile ]_vars

\* a first run over two records and a detailed file that cannot be parsed: the
\* output file holds an empty list and the non-detailed file its two records
C26_Witness ==
    /\ runs = 1
    /\ detailedFile = UnreadableFile
    /\ events_detailed = <<>>
    /\ Len(events_non_detailed) = 2
    /\ ret.output_saved /\ ret.non_detailed_saved
    /\ outputFile = File(<<>>)
    /\ HoldsAllOf(nonDetailedFile, events_non_detailed)
    /\ \E i \in Indices(events_non_detailed) : HasValidLink(events_non_detailed[i])

----------------------------------------------------------------------------
(* Properties of two runs on the same inputs *)

\* C27: for the same two input lists the sequence of records written to the
\* output file is the same on every run, also when several merged records have
\* an equal or a missing start_dt.
C27_OutputDeterministic ==
    pc = "done" => ret.first = ret.second

----------------------------------------------------------------------------
(* Properties of the words of the wrap *)

\* the words of the lines, read line by line
RECURSIVE WordsOf(_)
WordsOf(lines) == IF lines = <<>> THEN <<>> ELSE Split(Head(lines)) \o WordsOf(Tail(lines))

\* the line cap cuts nothing off
CapKeepsAll ==
    call.variant \in Capped =>
        Len(Uncapped(call.variant, call.text, call.max_width)) <= Cap(call.variant)

\* the paragraphs that get a line of their own although they have no word: the
\* blank pieces between newlines, in the wraps that look for newlines
BlankParagraphs ==
    IF call.variant \in {"standard", "story"} /\ HasNewline(call.text)
    THEN {j \in Indices(SplitOn(call.text, NL)) : Split(SplitOn(call.text, NL)[j]) = <<>>}
    ELSE {}

\* C28: when the line cap does not truncate, the words of the returned lines,
\* read in order, are exactly the whitespace-separated words of the text in
\* their order, each word on one line, and the only empty lines are those that
\* stand for the blank paragraphs.
C28_WrapKeepsWords ==
    (pc # "call" /\ CapKeepsAll) =>
        /\ WordsOf(ret.lines) = Split(call.text)
        /\ Cardinality({i \in Indices(ret.lines) : ret.lines[i] = <<>>})
              = Cardinality(BlankParagraphs)

\* a standard card text of two paragraphs around a blank one, the first a word
\* wider than the line, wrapped to three lines
C28_Witness ==
    /\ pc = "wrapped"
    /\ CapKeepsAll
    /\ call.variant = "standard"
    /\ Len(ret.lines) = 3
    /\ ret.lines[2] = <<>>
    /\ Len(Split(call.text)) = 2
    /\ TextWidth(Split(call.text)[1]) > call.max_width

----------------------------------------------------------------------------
(* Properties of the week of the daily cards *)

\* day 1 is a Monday, and so is every seventh day after it
IsMonday(day) == day % 7 = 1

\* C29: get_next_monday returns (monday, sunday) where monday is a Monday, is
\* the start date itself when that is a Monday and otherwise the first Monday
\* after it, at most 6 days later, and sunday is 6 days after monday; the seven
\* cards built from it are for Monday to Sunday of that week, in that order.
C29_NextMonday ==
    /\ pc # "call" =>
          LET start == call.start_date
              monday == ret.next_monday
          IN /\ IsMonday(monday.day)
             /\ monday.time = start.time
             /\ IsMonday(start.day) => monday = start
             /\ ~IsMonday(start.day) =>
                   /\ monday.day > start.day
                   /\ \A day \in (start.day + 1)..(monday.day - 1) : ~IsMonday(day)
             /\ monday.day - start.day \in 0..6
             /\ ret.next_sunday = [day |-> monday.day + 6, time |-> monday.time]
    /\ pc = "done" =>
          /\ Len(ret.data_cards) = 7
          /\ \A n \in 1..7 :
                /\ ret.data_cards[n].datetime.day = ret.next_monday.day + (n - 1)
                /\ ret.data_cards[n].datetime.day % 7 = n % 7
                /\ ret.data_cards[n].day_name_fr = FR_DAYS[n]
                /\ ret.data_cards[n].day_name_es = ES_DAYS[n]

\* a run started on a Wednesday evening: the Monday is five days later, and the
\* seven cards run from that Monday to the Sunday returned
C29_Witness ==
    /\ pc = "done"
    /\ call.start_date = [day |-> 3, time |-> 86399]
    /\ ret.next_monday = [day |-> 8, time |-> 86399]
    /\ ret.data_cards[1].day_name_fr = FR_DAYS[1]
    /\ ret.data_cards[7].datetime = ret.next_sunday
    /\ ret.data_cards[7].day_name_fr = FR_DAYS[7]

----------------------------------------------------------------------------
(* Properties of the layout of the standard card *)

CardHeight == 1350

\* C30: on the standard card of 1080x1350, for every size of the source image
\* and every length of the description, the pasted image is at most 675 pixels
\* high and 1000 wide, and the banner, the type, the title, the lines of the
\* description, the cost, the separator and the location are drawn at y
\* positions on the card; the cursor add_content returns is at most 1325.
C30_OnCanvas ==
    /\ pc \in {"banner", "content", "done"} =>
          /\ ret.image.height <= 675
          /\ ret.image.width <= 1000
          /\ ret.banner_start_y = ret.image.height
    /\ pc \in {"content", "done"} =>
          /\ \A i \in Indices(ret.banner) : ret.banner[i] \in 0..CardHeight
          /\ ret.banner_text_y \in 0..CardHeight
    /\ pc = "done" =>
          /\ \A f \in {"type", "title", "cost", "separator", "location"} :
                ret.layout[f] \in 0..CardHeight
          /\ \A i \in Indices(ret.layout.description) :
                ret.layout.description[i] \in 0..CardHeight
          /\ ret.layout.cursor <= 1325
          /\ ret.layout.cursor =
                EventAddContent("standard", CursorRecord(call.description),
                                ret.content_start_y, MaxWidth)

\* an image of 4000x4000 scaled to the width of 1000 and cropped to 675, over a
\* description cut to four lines: the cursor ends at 1325
C30_Witness ==
    /\ pc = "done"
    /\ call.img_width = 4000 /\ call.img_height = 4000
    /\ ret.image.height = 675
    /\ Len(ret.layout.description) = 4
    /\ ret.layout.location = 1275
    /\ ret.layout.cursor = 1325

====
